---- MODULE Spec2Model ----
(***************************************************************************)
(* A model of the text_cleaner refinement stage                            *)
(* (combined_workflow/step5_llm_refine.py and its older twin               *)
(* 17sep_4steps/stage3_llm_refiner.py): process_file splits a document     *)
(* into paragraphs, chunks them, classifies every chunk, repairs the ones  *)
(* that score below SCORE_THRESHOLD and reassembles the document with a    *)
(* duplicate-dropping pass.                                                *)
(*                                                                         *)
(* Texts are sequences of one-character strings, so that str.split,        *)
(* str.join and str.strip are computed character by character.            *)
(***************************************************************************)
EXTENDS Integers, Sequences, FiniteSets, TLC

\* ------------------------------------------------------------------------
\* Program constants
\* ------------------------------------------------------------------------

SCORE_THRESHOLD == 7

CHUNK_SIZE == 5

CHUNK_OVERLAP == 1

\* ------------------------------------------------------------------------
\* Bounds of the model
\* ------------------------------------------------------------------------

\* SpecChunk: the largest number of paragraphs of a document
MaxP == 12

\* SpecChunk: the largest configured chunk size
MaxSize == 5

\* Spec: the largest number of paragraphs a document is built from
MaxDocParas == 3

\* SpecClassify: scores the oracle may answer lie in -MaxScore .. MaxScore + 10
MaxScore == 2

\* The longest document pruned, in characters (but for the example)
MaxDocLen == 4

\* ------------------------------------------------------------------------
\* Characters and strings
\* ------------------------------------------------------------------------

NL == "\n"

SP == " "

PARA_SEP == <<NL, NL>>

Min(a, b) == IF a <= b THEN a ELSE b

\* str.isspace for one character
IsSpace(c) == c \in {SP, NL, "\t"}

RECURSIVE LStrip(_)
LStrip(s) ==
    IF s = <<>> THEN <<>>
    ELSE IF IsSpace(Head(s)) THEN LStrip(Tail(s))
    ELSE s

RECURSIVE RStrip(_)
RStrip(s) ==
    IF s = <<>> THEN <<>>
    ELSE IF IsSpace(s[Len(s)]) THEN RStrip(SubSeq(s, 1, Len(s) - 1))
    ELSE s

\* str.strip(): leading and trailing whitespace removed
Strip(s) == RStrip(LStrip(s))

\* The start of the run of line breaks that position j lies in
RunStart(s, j) ==
    CHOOSE h \in 1..j :
        /\ \A q \in h..j : s[q] = NL
        /\ h = 1 \/ s[h - 1] /= NL

\* Where str.split('\n\n') finds its separators: it scans left to right and
\* matches do not overlap, so a run of line breaks is cut into pairs from its
\* start and an odd last line break stays with the piece that follows.
SeparatorStarts(s) ==
    {j \in 1..(Len(s) - 1) :
        s[j] = NL /\ s[j + 1] = NL /\ (j - RunStart(s, j)) % 2 = 0}

\* str.split('\n\n'): the pieces between the separators, in order; the result
\* always has at least one piece, and a piece may be empty.
Split(s) ==
    LET seps == SeparatorStarts(s)
        rank == [q \in seps |-> Cardinality({t \in seps : t < q})]
        Nth(c) == CHOOSE q \in seps : rank[q] = c - 1
        m == Cardinality(seps)
    IN  [c \in 1..(m + 1) |->
            SubSeq(s, IF c = 1 THEN 1 ELSE Nth(c - 1) + 2,
                      IF c = m + 1 THEN Len(s) ELSE Nth(c) - 1)]

\* "\n\n".join(parts)
RECURSIVE Join(_)
Join(parts) ==
    IF parts = <<>> THEN <<>>
    ELSE IF Len(parts) = 1 THEN parts[1]
    ELSE parts[1] \o PARA_SEP \o Join(Tail(parts))


\* ------------------------------------------------------------------------
\* Python values an oracle response can carry, and int() / str() on them
\* ------------------------------------------------------------------------

\* A JSON value: t is its Python type, n its number (a float is n tenths),
\* s its characters.
PyNone == [t |-> "none", n |-> 0, s |-> <<>>]

PyInt(n) == [t |-> "int", n |-> n, s |-> <<>>]

PyFloat(tenths) == [t |-> "float", n |-> tenths, s |-> <<>>]

PyInf == [t |-> "inf", n |-> 0, s |-> <<>>]

PyNaN == [t |-> "nan", n |-> 0, s |-> <<>>]

PyBool(b) == [t |-> "bool", n |-> IF b THEN 1 ELSE 0, s |-> <<>>]

PyStr(s) == [t |-> "str", n |-> 0, s |-> s]

PyList == [t |-> "list", n |-> 0, s |-> <<>>]

\* A list of n elements
PyListOf(n) == [t |-> "list", n |-> n, s |-> <<>>]

Digits == {"0", "1", "2", "3", "4", "5", "6", "7", "8", "9"}

DigitVal(c) ==
    CASE c = "0" -> 0 [] c = "1" -> 1 [] c = "2" -> 2 [] c = "3" -> 3
      [] c = "4" -> 4 [] c = "5" -> 5 [] c = "6" -> 6 [] c = "7" -> 7
      [] c = "8" -> 8 [] c = "9" -> 9

RECURSIVE DigitsVal(_, _)
DigitsVal(ds, acc) ==
    IF ds = <<>> THEN acc
    ELSE DigitsVal(Tail(ds), 10 * acc + DigitVal(Head(ds)))

Ok(v) == [exc |-> "", v |-> v]

Raise(exc) == [exc |-> exc, v |-> 0]

\* int(str): surrounding whitespace is ignored, one sign is allowed, the rest
\* must be decimal digits; anything else (also "7.5") is a ValueError.
IntOfStr(s) ==
    LET t == Strip(s)
        signed == t /= <<>> /\ Head(t) \in {"+", "-"}
        ds == IF signed THEN Tail(t) ELSE t
    IN  IF ds = <<>> \/ \E j \in 1..Len(ds) : ds[j] \notin Digits
        THEN Raise("ValueError")
        ELSE IF signed /\ Head(t) = "-" THEN Ok(0 - DigitsVal(ds, 0))
        ELSE Ok(DigitsVal(ds, 0))

\* int(float) truncates toward zero
Trunc(tenths) == IF tenths >= 0 THEN tenths \div 10 ELSE 0 - ((0 - tenths) \div 10)

\* int(x) of Python
IntOf(x) ==
    CASE x.t = "int" -> Ok(x.n)
      [] x.t = "bool" -> Ok(x.n)
      [] x.t = "float" -> Ok(Trunc(x.n))
      [] x.t = "inf" -> Raise("OverflowError")
      [] x.t = "nan" -> Raise("ValueError")
      [] x.t = "str" -> IntOfStr(x.s)
      [] OTHER -> Raise("TypeError")

\* ------------------------------------------------------------------------
\* classify_chunk and repair_chunk
\* ------------------------------------------------------------------------

\* The two implementations of the refinement stage
Impls == {"step5", "stage3"}

\* What client.chat does for a classification: it raises ("raise"), answers
\* without message/content ("no_message"), or answers content that
\* json.loads rejects ("bad_json"), parses to something that is no object
\* ("not_object"), or parses to an object with the values score and reason
\* (PyNone for a missing or null key).
ChatRaises == [chat |-> "raise", score |-> PyNone, reason |-> PyNone]

ChatNoMessage == [chat |-> "no_message", score |-> PyNone, reason |-> PyNone]

ChatBadJson == [chat |-> "bad_json", score |-> PyNone, reason |-> PyNone]

ChatNotObject == [chat |-> "not_object", score |-> PyNone, reason |-> PyNone]

ChatObject(score, reason) == [chat |-> "object", score |-> score, reason |-> reason]

\* A ClassificationResult: why tells which return statement built the reason
\* ("oracle": str(reason) of the response; otherwise one of the three
\* failure messages), text is the part of the message that varies.
Result(score, why, text) == [score |-> score, why |-> why, text |-> text]

ErrorResult(exc) == Result(1, "error", <<exc>>)

\* int(score) failed inside classify_chunk: stage3 catches ValueError and
\* TypeError next to the conversion, step5 (and stage3 for any other
\* exception) leaves it to the outer handler.
ScoreConversionFailed(impl, exc) ==
    IF impl = "stage3" /\ exc \in {"ValueError", "TypeError"}
    THEN Result(1, "non_integer", <<exc>>)
    ELSE ErrorResult(exc)

classify_chunk(impl, resp) ==
    CASE resp.chat = "raise" -> ErrorResult("ConnectionError")
      [] resp.chat = "no_message" -> ErrorResult("KeyError")
      [] resp.chat = "bad_json" -> ErrorResult("JSONDecodeError")
      [] resp.chat = "not_object" -> ErrorResult("AttributeError")
      [] OTHER ->
            IF resp.score.t /= "none" /\ resp.reason.t /= "none"
            THEN LET c == IntOf(resp.score)
                 IN  IF c.exc = ""
                     THEN Result(c.v, "oracle", resp.reason.s)
                     ELSE ScoreConversionFailed(impl, c.exc)
            ELSE Result(1, "missing_keys", <<>>)

\* What client.chat does for a repair: "raise", "no_message" (no message or
\* no content key), or "ok" with the content value.
RepairRaises == [chat |-> "raise", content |-> PyNone]

RepairNoMessage == [chat |-> "no_message", content |-> PyNone]

RepairAnswers(content) == [chat |-> "ok", content |-> content]

\* A repair_chunk whose failure path trims the chunk it hands back
repair_chunk_trims(text_chunk, resp) ==
    IF resp.chat = "ok" /\ resp.content.t = "str"
    THEN Strip(resp.content.s)
    ELSE Strip(text_chunk)

repair_chunk(text_chunk, resp) ==
    IF resp.chat = "ok" /\ resp.content.t = "str"
    THEN Strip(resp.content.s)
    ELSE text_chunk

\* The repair oracle's ways of answering a chunk: failing, or the text
\* unchanged, or with every "a" rewritten to "x" and whitespace around it,
\* or nothing at all.
Rewrite(s) == [j \in 1..Len(s) |-> IF s[j] = "a" THEN "x" ELSE s[j]]

RepairResponse(how, text_chunk) ==
    CASE how = "raise" -> RepairRaises
      [] how = "no_message" -> RepairNoMessage
      [] how = "none" -> RepairAnswers(PyNone)
      [] how = "echo" -> RepairAnswers(PyStr(text_chunk))
      [] how = "rewrite" ->
            RepairAnswers(PyStr(<<SP>> \o Rewrite(text_chunk) \o <<NL>>))
      [] how = "empty" -> RepairAnswers(PyStr(<<>>))

\* ------------------------------------------------------------------------
\* The oracles a run can be given
\* ------------------------------------------------------------------------

\* The reason field of a well-formed classification response
SomeReason == PyStr(<<"r">>)

Scored(n) == ChatObject(PyInt(n), SomeReason)

ScoreRange == (0 - MaxScore)..(10 + MaxScore)

ScoreStrings ==
    {<<"7">>, <<SP, "6", NL>>, <<"7", ".", "5">>, <<"1", "0">>, <<"-", "1">>,
     <<"a">>, <<>>}

ScoreValues ==
    {PyNone, PyList, PyInf, PyNaN, PyBool(TRUE), PyBool(FALSE)}
    \cup {PyInt(n) : n \in ScoreRange}
    \cup {PyFloat(10 * n + 5) : n \in ScoreRange}
    \cup {PyStr(s) : s \in ScoreStrings}

\* Every kind of answer of the classification oracle
AllResponses ==
    {ChatRaises, ChatNoMessage, ChatBadJson, ChatNotObject}
    \cup {ChatObject(sv, rv) : sv \in ScoreValues, rv \in {PyNone, SomeReason}}

\* The classification oracles: "any" answers anything; "stub" fails, or
\* scores just below or at the threshold; "below" and "at" always give that
\* score.
ClassifierResponses(name) ==
    CASE name = "any" -> AllResponses
      [] name = "stub" ->
            {ChatRaises, Scored(SCORE_THRESHOLD - 1), Scored(SCORE_THRESHOLD)}
      [] name = "below" -> {Scored(SCORE_THRESHOLD - 1)}
      [] name = "at" -> {Scored(SCORE_THRESHOLD)}

\* The repair oracles: "any" fails in every way or answers; "stub" fails or
\* answers in every way; "down" always fails.
RepairerAnswers(name) ==
    CASE name = "any" -> {"raise", "no_message", "none", "echo", "rewrite"}
      [] name = "stub" -> {"raise", "rewrite", "empty"}
      [] name = "down" -> {"raise"}

\* ------------------------------------------------------------------------
\* Regular expressions as the re module matches them: a pattern is a tree,
\* and matching a pattern from a state gives the states it can end in, in
\* the order backtracking tries them; the first one is the match.
\* ------------------------------------------------------------------------

TAB == "\t"

\* \s (the ASCII part of it that texts here are written with)
Whitespace == {SP, NL, TAB, "\r"}

Lowercase ==
    <<"a", "b", "c", "d", "e", "f", "g", "h", "i", "j", "k", "l", "m",
      "n", "o", "p", "q", "r", "s", "t", "u", "v", "w", "x", "y", "z">>

Uppercase ==
    <<"A", "B", "C", "D", "E", "F", "G", "H", "I", "J", "K", "L", "M",
      "N", "O", "P", "Q", "R", "S", "T", "U", "V", "W", "X", "Y", "Z">>

\* [a-zA-Z]
Letters == {Lowercase[j] : j \in 1..26} \cup {Uppercase[j] : j \in 1..26}

\* \w: letters, digits, the underscore, and the letters and digits of other
\* scripts. Characters outside ASCII are written by their code point.
WordChars ==
    Letters \cup Digits \cup
        {"_",
         "U+2460", "U+2461", "U+2462", "U+2463", "U+2464", "U+2465",
         "U+2466", "U+2467", "U+2468", "U+2469", "U+4E1A", "U+4E2D",
         "U+4EA4", "U+4ECB", "U+4F5C", "U+5173", "U+5206", "U+5377",
         "U+53C2", "U+53F7", "U+56FE", "U+5B66", "U+62A5", "U+6458",
         "U+6536", "U+6587", "U+65E5", "U+671F", "U+6B66", "U+6C49",
         "U+732E", "U+7A3F", "U+7AE0", "U+7B2C", "U+7B80", "U+7C7B",
         "U+7F16", "U+8003", "U+8005", "U+804C", "U+8868", "U+8981",
         "U+8BCD", "U+901A", "U+952E", "U+9662"}

\* The two cases of a character, for re.IGNORECASE
AnyCase(c) ==
    {c} \cup {Uppercase[j] : j \in {h \in 1..26 : Lowercase[h] = c}}
        \cup {Lowercase[j] : j \in {h \in 1..26 : Uppercase[h] = c}}

\* Pattern nodes
OneOf(S) == [k |-> "ch", a |-> S, b |-> FALSE]
NoneOf(S) == [k |-> "ch", a |-> S, b |-> TRUE]
Cat(parts) == [k |-> "cat", a |-> parts, b |-> 0]
Alt(options) == [k |-> "alt", a |-> options, b |-> 0]
Greedy(sub, min) == [k |-> "rep", a |-> sub, b |-> [min |-> min, lazy |-> FALSE]]
Lazy(sub, min) == [k |-> "rep", a |-> sub, b |-> [min |-> min, lazy |-> TRUE]]
Optional(sub) == [k |-> "opt", a |-> sub, b |-> 0]
Group(n, sub) == [k |-> "grp", a |-> sub, b |-> n]
BackRef(n) == [k |-> "ref", a |-> 0, b |-> n]
TextStart == [k |-> "text_start", a |-> 0, b |-> 0]
LineStart == [k |-> "line_start", a |-> 0, b |-> 0]
LineEnd == [k |-> "line_end", a |-> 0, b |-> 0]
WordBoundary == [k |-> "word_boundary", a |-> 0, b |-> 0]

\* . without re.DOTALL, and with it
Dot == NoneOf({NL})
DotAll == NoneOf({})

\* A literal string, as re.escape makes any string one
Literal(str) == Cat([j \in 1..Len(str) |-> OneOf({str[j]})])

\* A literal string under re.IGNORECASE
LiteralAnyCase(str) == Cat([j \in 1..Len(str) |-> OneOf(AnyCase(str[j]))])

\* A state of the matcher: the position of the next character, and the
\* spans <<from, to>> (to exclusive) of the groups, <<0, 0>> when not set
MaxGroups == 2

At(p) == [p |-> p, g |-> [n \in 1..MaxGroups |-> <<0, 0>>]]

IsWordAt(s, p) == p >= 1 /\ p <= Len(s) /\ s[p] \in WordChars

\* Does the text read str from position p on
ReadsAt(s, p, str) ==
    /\ p + Len(str) - 1 <= Len(s)
    /\ \A j \in 1..Len(str) : s[p + j - 1] = str[j]

\* How many characters from position p on are in the class of a "ch" node
RunLength(node, s, p) ==
    LET stops == {q \in p..(Len(s) + 1) :
                     q = Len(s) + 1 \/ ((s[q] \in node.a) = node.b)}
    IN  (CHOOSE q \in stops : \A r \in stops : q <= r) - p

\* A repeated character class: a greedy one ends after as many characters
\* as there are and then after fewer, a lazy one after as few as it may and
\* then after more
RepeatClass(node, s, st) ==
    LET most == RunLength(node.a, s, st.p)
        min == node.b.min
    IN  IF most < min THEN <<>>
        ELSE [j \in 1..(most - min + 1) |->
                [st EXCEPT !.p = st.p + (IF node.b.lazy THEN min + j - 1
                                         ELSE most - j + 1)]]

RECURSIVE Run(_, _, _)
RECURSIVE Each(_, _, _, _, _)
RECURSIVE CatFrom(_, _, _, _)
RECURSIVE AltAmong(_, _, _, _, _)
RECURSIVE Repeat(_, _, _, _)
RECURSIVE RepeatEach(_, _, _, _, _)

\* The states node can end in when it starts in state st
Run(node, s, st) ==
    CASE node.k = "ch" ->
            IF st.p <= Len(s) /\ ((s[st.p] \in node.a) /= node.b)
            THEN <<[st EXCEPT !.p = st.p + 1]>> ELSE <<>>
      [] node.k = "cat" -> CatFrom(node.a, 1, s, <<st>>)
      [] node.k = "alt" -> AltAmong(node.a, 1, Len(node.a), s, st)
      [] node.k = "rep" ->
            IF node.a.k = "ch" THEN RepeatClass(node, s, st)
            ELSE Repeat(node, s, st, 0)
      [] node.k = "opt" -> Run(node.a, s, st) \o <<st>>
      [] node.k = "grp" ->
            LET ends == Run(node.a, s, st)
            IN  [j \in 1..Len(ends) |->
                    [ends[j] EXCEPT !.g[node.b] = <<st.p, ends[j].p>>]]
      [] node.k = "ref" ->
            LET span == st.g[node.b]
                str == SubSeq(s, span[1], span[2] - 1)
            IN  IF span[1] > 0 /\ ReadsAt(s, st.p, str)
                THEN <<[st EXCEPT !.p = st.p + Len(str)]>> ELSE <<>>
      [] node.k = "text_start" -> IF st.p = 1 THEN <<st>> ELSE <<>>
      [] node.k = "line_start" ->
            IF st.p = 1 \/ s[st.p - 1] = NL THEN <<st>> ELSE <<>>
      [] node.k = "line_end" ->
            IF st.p = Len(s) + 1 \/ s[st.p] = NL THEN <<st>> ELSE <<>>
      [] node.k = "word_boundary" ->
            IF IsWordAt(s, st.p - 1) /= IsWordAt(s, st.p) THEN <<st>> ELSE <<>>

\* node started in each of the states sts[lo..hi], in their order
Each(node, s, sts, lo, hi) ==
    IF lo > hi THEN <<>>
    ELSE IF lo = hi THEN Run(node, s, sts[lo])
    ELSE LET mid == (lo + hi) \div 2
         IN  Each(node, s, sts, lo, mid) \o Each(node, s, sts, mid + 1, hi)

\* The parts from the j-th on, one after the other
CatFrom(parts, j, s, sts) ==
    IF j > Len(parts) \/ sts = <<>> THEN sts
    ELSE CatFrom(parts, j + 1, s, Each(parts[j], s, sts, 1, Len(sts)))

\* The options lo..hi, the earlier option first
AltAmong(options, lo, hi, s, st) ==
    IF lo > hi THEN <<>>
    ELSE IF lo = hi THEN Run(options[lo], s, st)
    ELSE LET mid == (lo + hi) \div 2
         IN  AltAmong(options, lo, mid, s, st)
             \o AltAmong(options, mid + 1, hi, s, st)

\* A repetition that has gone round c times: a greedy one goes round again
\* before it tries to stop, a lazy one stops before it goes round again
Repeat(node, s, st, c) ==
    LET again == RepeatEach(node, s, Run(node.a, s, st), st.p, c + 1)
        stop == IF c >= node.b.min THEN <<st>> ELSE <<>>
    IN  IF node.b.lazy THEN stop \o again ELSE again \o stop

RepeatEach(node, s, sts, p, c) ==
    IF sts = <<>> THEN <<>>
    ELSE (IF Head(sts).p > p THEN Repeat(node, s, Head(sts), c) ELSE <<>>)
         \o RepeatEach(node, s, Tail(sts), p, c)

NoMatch == [from |-> 0, to |-> 0, g |-> At(0).g]

\* pattern.match(s): the match that starts at the first character
MatchAt(pattern, s, p) ==
    LET ends == Run(pattern, s, At(p))
    IN  IF ends = <<>> THEN NoMatch
        ELSE [from |-> p, to |-> ends[1].p, g |-> ends[1].g]

\* pattern.search(s, pos): the match that starts leftmost at or after pos
SearchFrom(pattern, s, pos) ==
    LET starts == {p \in pos..(Len(s) + 1) : Run(pattern, s, At(p)) /= <<>>}
    IN  IF starts = {} THEN NoMatch
        ELSE MatchAt(pattern, s, CHOOSE p \in starts : \A q \in starts : p <= q)

\* match.group(n)
GroupText(s, m, n) == SubSeq(s, m.g[n][1], m.g[n][2] - 1)

\* A replacement template is a sequence of characters and of group
\* references \1, \2
Chr(c) == [grp |-> 0, chr |-> c]

Ref(n) == [grp |-> n, chr |-> ""]

\* match.expand(template) from the j-th piece of the template on
RECURSIVE ExpandFrom(_, _, _, _)
ExpandFrom(template, j, s, m) ==
    IF j > Len(template) THEN <<>>
    ELSE (IF template[j].grp > 0 THEN GroupText(s, m, template[j].grp)
          ELSE <<template[j].chr>>)
         \o ExpandFrom(template, j + 1, s, m)

Expand(template, s, m) == ExpandFrom(template, 1, s, m)

\* pattern.sub(template, s) from position pos on: the matches left to
\* right, none overlapping an earlier one, each replaced
RECURSIVE SubFrom(_, _, _, _)
SubFrom(pattern, template, s, pos) ==
    LET m == SearchFrom(pattern, s, pos)
    IN  IF m = NoMatch THEN SubSeq(s, pos, Len(s))
        ELSE IF m.to > m.from
        THEN SubSeq(s, pos, m.from - 1) \o Expand(template, s, m)
             \o SubFrom(pattern, template, s, m.to)
        ELSE SubSeq(s, pos, m.from - 1) \o Expand(template, s, m)
             \o SubSeq(s, m.from, Min(m.from, Len(s)))
             \o (IF m.from > Len(s) THEN <<>>
                 ELSE SubFrom(pattern, template, s, m.from + 1))

Sub(pattern, template, s) == SubFrom(pattern, template, s, 1)

\* ------------------------------------------------------------------------
\* The rule-based cleaner: clean_text_with_rules of step2_rule_clean.py and
\* clean_academic_text of stage1_cleaner.py
\* ------------------------------------------------------------------------

Cleaners == {"step2", "stage1"}

WS == OneOf(Whitespace)

Digit == OneOf(Digits)

Alnum == OneOf(Letters \cup Digits)

NotSpace == NoneOf(Whitespace)

\* Page numbers matched without the end of the line
PAGE_NUMBERS_UNANCHORED ==
    Cat(<<Greedy(WS, 0), Greedy(Cat(<<Greedy(Digit, 1), Greedy(WS, 0)>>), 1),
          Greedy(WS, 0)>>)

\* Standalone page numbers: \s*(\d+\s*)+\s*$
PAGE_NUMBERS ==
    Cat(<<Greedy(WS, 0), Greedy(Cat(<<Greedy(Digit, 1), Greedy(WS, 0)>>), 1),
          Greedy(WS, 0), LineEnd>>)

\* Table of contents lines with dot leaders: .*?\.{2,}\s*\d+\s*$
DOT_LEADERS ==
    Cat(<<Lazy(Dot, 0), Greedy(OneOf({"."}), 2), Greedy(WS, 0),
          Greedy(Digit, 1), Greedy(WS, 0), LineEnd>>)

\* (journal of|proceedings of|transactions on|review of|advances in) .*
JOURNAL_LINES ==
    Cat(<<Alt(<<LiteralAnyCase(<<"j", "o", "u", "r", "n", "a", "l", SP, "o", "f">>),
                LiteralAnyCase(<<"p", "r", "o", "c", "e", "e", "d", "i", "n",
                                 "g", "s", SP, "o", "f">>),
                LiteralAnyCase(<<"t", "r", "a", "n", "s", "a", "c", "t", "i",
                                 "o", "n", "s", SP, "o", "n">>),
                LiteralAnyCase(<<"r", "e", "v", "i", "e", "w", SP, "o", "f">>),
                LiteralAnyCase(<<"a", "d", "v", "a", "n", "c", "e", "s", SP,
                                 "i", "n">>)>>),
          OneOf({SP}), Greedy(Dot, 0)>>)

\* https?://[^\s]+
URLS ==
    Cat(<<LiteralAnyCase(<<"h", "t", "t", "p">>), Optional(OneOf({"s", "S"})),
          Literal(<<":", "/", "/">>), Greedy(NotSpace, 1)>>)

\* \bdoi:[^\s]+
DOI_LINKS ==
    Cat(<<WordBoundary, LiteralAnyCase(<<"d", "o", "i", ":">>),
          Greedy(NotSpace, 1)>>)

\* The section labels of step2's pattern, Chinese and English
SECTION_LABELS ==
    <<Cat(<<OneOf({"U+7B2C"}), Greedy(WS, 0), Greedy(Digit, 1), Greedy(WS, 0),
            OneOf({"U+5377"})>>),
      Literal(<<"U+6B66", "U+6C49", "U+4EA4", "U+901A", "U+804C", "U+4E1A",
                "U+5B66", "U+9662", "U+5B66", "U+62A5">>),
      Literal(<<"U+6458", "U+8981", ":">>),
      Literal(<<"U+5173", "U+952E", "U+8BCD", ":">>),
      Literal(<<"U+4E2D", "U+56FE", "U+5206", "U+7C7B", "U+53F7", ":">>),
      Literal(<<"U+6587", "U+7AE0", "U+7F16", "U+53F7", ":">>),
      Literal(<<"U+6536", "U+7A3F", "U+65E5", "U+671F", ":">>),
      Literal(<<"U+4F5C", "U+8005", "U+7B80", "U+4ECB", ":">>),
      Literal(<<"U+53C2", "U+8003", "U+6587", "U+732E", ":">>),
      LiteralAnyCase(<<"A", "b", "s", "t", "r", "a", "c", "t", ":">>),
      LiteralAnyCase(<<"K", "e", "y", "w", "o", "r", "d", "s", ":">>),
      LiteralAnyCase(<<"D", "O", "I", ":">>),
      LiteralAnyCase(<<"A", "r", "t", "i", "c", "l", "e", SP, "I", "D", ":">>),
      LiteralAnyCase(<<"R", "e", "c", "e", "i", "v", "e", "d", ":">>),
      LiteralAnyCase(<<"B", "i", "o", "g", "r", "a", "p", "h", "y", ":">>)>>

\* The alternatives that only stage1's pattern has: footnote lines
\* \s*<circled 1>.*$, Page \d+ of \d+\s*$, and year ranges
\* \b\d{4}\s*<en dash>\s*\d{4}\b
FOOTNOTE_LINES ==
    Cat(<<Greedy(WS, 0), OneOf({"U+2460"}), Greedy(Dot, 0), LineEnd>>)

PAGE_OF ==
    Cat(<<LiteralAnyCase(<<"P", "a", "g", "e", SP>>), Greedy(Digit, 1),
          LiteralAnyCase(<<SP, "o", "f", SP>>), Greedy(Digit, 1),
          Greedy(WS, 0), LineEnd>>)

YEAR_RANGES ==
    Cat(<<WordBoundary, Digit, Digit, Digit, Digit, Greedy(WS, 0),
          OneOf({"U+2013"}), Greedy(WS, 0), Digit, Digit, Digit, Digit,
          WordBoundary>>)

\* HEADER_FOOTER_PATTERNS, under re.IGNORECASE | re.MULTILINE
HEADER_FOOTER_PATTERNS(cleaner) ==
    Cat(<<LineStart,
          Alt(IF cleaner = "step2"
              THEN <<PAGE_NUMBERS, DOT_LEADERS, JOURNAL_LINES, URLS, DOI_LINKS,
                     Cat(<<OneOf({"U+00A9"}), Greedy(Dot, 0)>>)>>
                   \o SECTION_LABELS
              ELSE <<PAGE_NUMBERS, DOT_LEADERS, FOOTNOTE_LINES, PAGE_OF,
                     JOURNAL_LINES, URLS, YEAR_RANGES, DOI_LINKS>>)>>)

\* \b(.+?)\b\s+\1\b
DUPLICATE_PHRASE_PATTERN ==
    Cat(<<WordBoundary, Group(1, Lazy(Dot, 1)), WordBoundary, Greedy(WS, 1),
          BackRef(1), WordBoundary>>)

\* step2: \[\s*\d+\s*\]|\[[<circled 1..10>]\]; stage1: [<circled 1>]
INLINE_CITATION_PATTERN(cleaner) ==
    IF cleaner = "step2"
    THEN Alt(<<Cat(<<OneOf({"["}), Greedy(WS, 0), Greedy(Digit, 1),
                     Greedy(WS, 0), OneOf({"]"})>>),
               Cat(<<OneOf({"["}),
                     OneOf({"U+2460", "U+2461", "U+2462", "U+2463", "U+2464",
                            "U+2465", "U+2466", "U+2467", "U+2468", "U+2469"}),
                     OneOf({"]"})>>)>>)
    ELSE OneOf({"U+2460"})

\* ^\s*\d+\s*\|?\s*, without re.MULTILINE
LINE_NUMBER_PATTERN ==
    Cat(<<TextStart, Greedy(WS, 0), Greedy(Digit, 1), Greedy(WS, 0),
          Optional(OneOf({"|"})), Greedy(WS, 0)>>)

\* ([a-zA-Z])-\n([a-zA-Z])
DEHYPHENATE_PATTERN ==
    Cat(<<Group(1, OneOf(Letters)), OneOf({"-"}), OneOf({NL}),
          Group(2, OneOf(Letters))>>)

\* ^\s*(\([a-zA-Z0-9]+\)|[a-zA-Z0-9][\.\)]|[<bullets>*<en dash>-]\s); stage1
\* has [a-zA-Z0-9]\. for the second alternative
LIST_ITEM_PATTERN(cleaner) ==
    Cat(<<TextStart, Greedy(WS, 0),
          Alt(<<Cat(<<OneOf({"("}), Greedy(Alnum, 1), OneOf({")"})>>),
                Cat(<<Alnum, OneOf(IF cleaner = "step2" THEN {".", ")"}
                                   ELSE {"."})>>),
                Cat(<<OneOf({"U+2022", "U+25CF", "*", "U+2013", "-"}), WS>>)>>)>>)

\* ^(Fig(ure)?\.? \d+|Table \d+|<figure>\s*\d+|<table>\s*\d+)\b.*$ under
\* re.IGNORECASE | re.MULTILINE; stage1 has the first two alternatives
CAPTION_PATTERN(cleaner) ==
    Cat(<<LineStart,
          Alt(<<Cat(<<LiteralAnyCase(<<"F", "i", "g">>),
                      Optional(LiteralAnyCase(<<"u", "r", "e">>)),
                      Optional(OneOf({"."})), OneOf({SP}), Greedy(Digit, 1)>>),
                Cat(<<LiteralAnyCase(<<"T", "a", "b", "l", "e", SP>>),
                      Greedy(Digit, 1)>>)>>
              \o (IF cleaner = "step2"
                  THEN <<Cat(<<OneOf({"U+56FE"}), Greedy(WS, 0), Greedy(Digit, 1)>>),
                         Cat(<<OneOf({"U+8868"}), Greedy(WS, 0), Greedy(Digit, 1)>>)>>
                  ELSE <<>>)),
          WordBoundary, Greedy(Dot, 0), LineEnd>>)

\* [ \t]+
MULTI_WHITESPACE_PATTERN == Greedy(OneOf({SP, TAB}), 1)

\* \n{3,}
MULTI_NEWLINE_PATTERN == Greedy(OneOf({NL}), 3)

\* The marks a line can end with to be a complete thought: . ? ! " and the
\* right double quotation mark and : in both cleaners, the ideographic full
\* stop and the fullwidth ? and ! in step2 only
TERMINAL_MARKS(cleaner) ==
    {".", "?", "!", "\"", "U+201D", ":"}
        \cup (IF cleaner = "step2" THEN {"U+3002", "U+FF1F", "U+FF01"} ELSE {})

\* The text after each of the steps 1 to 5, in their order
Steps1To5(cleaner, raw) ==
    LET t1 == Sub(HEADER_FOOTER_PATTERNS(cleaner), <<>>, raw)
        t2 == Sub(DUPLICATE_PHRASE_PATTERN, <<Ref(1)>>, t1)
        t3 == Sub(INLINE_CITATION_PATTERN(cleaner), <<>>, t2)
        t4 == Sub(LINE_NUMBER_PATTERN, <<>>, t3)
        t5 == Sub(DEHYPHENATE_PATTERN, <<Ref(1), Ref(2)>>, t4)
    IN  <<t1, t2, t3, t4, t5>>

\* str.split('\n')
SplitLines(s) ==
    LET breaks == {q \in 1..Len(s) : s[q] = NL}
        rank == [q \in breaks |-> Cardinality({r \in breaks : r < q})]
        Nth(c) == CHOOSE q \in breaks : rank[q] = c - 1
        m == Cardinality(breaks)
    IN  [c \in 1..(m + 1) |->
            SubSeq(s, IF c = 1 THEN 1 ELSE Nth(c - 1) + 1,
                      IF c = m + 1 THEN Len(s) ELSE Nth(c) - 1)]

\* '\n'.join(lines)
RECURSIVE JoinLines(_)
JoinLines(ls) ==
    IF ls = <<>> THEN <<>>
    ELSE IF Len(ls) = 1 THEN ls[1]
    ELSE ls[1] \o <<NL>> \o JoinLines(Tail(ls))

\* pattern.match(line) finds a match
Matches(pattern, line) == MatchAt(pattern, line, 1) /= NoMatch

\* A line that is never complete
NeverComplete(cleaner, line) == FALSE

\* is_complete_thought
IsCompleteThought(cleaner, line) ==
    \/ line[Len(line)] \in TERMINAL_MARKS(cleaner)
    \/ Matches(LIST_ITEM_PATTERN(cleaner), line)
    \/ Matches(CAPTION_PATTERN(cleaner), line)

\* The merge that does not look at what kind of line follows
MergesIntoAny(cleaner, next_line) == next_line /= <<>>

\* The merge that does not look at the line that follows at all
MergesAcrossBlank(cleaner, next_line) == TRUE

\* next_line and not LIST_ITEM_PATTERN.match(next_line)
MergesInto(cleaner, next_line) ==
    next_line /= <<>> /\ ~Matches(LIST_ITEM_PATTERN(cleaner), next_line)

\* A merge that keeps the next line only
MergedLosing(line, next_line) == next_line

\* lines[i+1] = line + ' ' + next_line
Merged(line, next_line) == line \o <<SP>> \o next_line

\* One pass of the while loop, on the state [lines, i, rejoined_lines]; i
\* counts from 1 here. What was decided is noted in "did".
RejoinLine(cleaner, st) ==
    LET line == Strip(st.lines[st.i])
        next_line == Strip(st.lines[st.i + 1])
        emit(l, what) == [lines |-> st.lines, i |-> st.i + 1,
                          rejoined_lines |-> Append(st.rejoined_lines, l),
                          did |-> what]
    IN  IF line = <<>> THEN emit(<<>>, "blank")
        ELSE IF ~IsCompleteThought(cleaner, line) /\ st.i + 1 <= Len(st.lines)
        THEN IF MergesInto(cleaner, next_line)
             THEN [lines |-> [st.lines EXCEPT ![st.i + 1] =
                                  Merged(line, next_line)],
                   i |-> st.i + 1,
                   rejoined_lines |-> st.rejoined_lines,
                   did |-> "merged"]
             ELSE emit(line, "emitted")
        ELSE emit(line, "emitted")

\* The while loop from state st to its end
RECURSIVE RejoinAll(_, _)
RejoinAll(cleaner, st) ==
    IF st.i > Len(st.lines) THEN st.rejoined_lines
    ELSE RejoinAll(cleaner, RejoinLine(cleaner, st))

\* Step 7 and the final strip
Normalized(rejoined) ==
    Strip(Sub(MULTI_NEWLINE_PATTERN, <<Chr(NL), Chr(NL)>>,
              Sub(MULTI_WHITESPACE_PATTERN, <<Chr(SP)>>, JoinLines(rejoined))))

\* The whole of clean_text_with_rules / clean_academic_text
Reconstruct(cleaner, raw) ==
    Normalized(RejoinAll(cleaner,
        [lines |-> SplitLines(Steps1To5(cleaner, raw)[5]), i |-> 1,
         rejoined_lines |-> <<>>, did |-> "start"]))

\* ------------------------------------------------------------------------
\* process_file as a state machine
\* ------------------------------------------------------------------------

VARIABLES
    impl,             \* which of the two source files runs
    text,             \* the file's content
    chunk_size,       \* CHUNK_SIZE of this run
    chunk_overlap,    \* CHUNK_OVERLAP of this run
    classifier,       \* the classification oracle of this run (a name)
    repairer,         \* the repair oracle of this run (a name)
    pc,               \* where process_file stands
    paragraphs,       \* text.split('\n\n')
    i,                \* the chunking loop's variable
    chunks,           \* the chunk texts
    spans,            \* per chunk, the slice <<i, end>> it was joined from
    k,                \* the number of the chunk the refinement loop is at
    response,         \* what the oracle answered to the last classification
    classification,   \* the last result of classify_chunk
    repair_response,  \* what the oracle answered to the last repair
    repair_args,      \* the arguments of the last call of repair_chunk
    repaired_chunks,  \* the processed chunks
    log,              \* the oracle calls made so far, in order
    final_paragraphs, \* the paragraphs the dedup pass kept
    output            \* the text process_file returns

\* process_directory of the refinement stage
VARIABLES
    input_dir,        \* the input directory: is it one, and its entries
    output_before,    \* the output directory when the run starts
    output_dir,       \* the output directory: per filename, what it holds
    filenames,        \* the sorted list of .txt names
    f,                \* how many of filenames the loop is through
    attempts,         \* per file the loop went through, how it ended
    batch_pc          \* where process_directory stands

\* Pruning one document between two headings
VARIABLES
    prune_caller,     \* which program prunes
    document,         \* the document's text
    params,           \* the headings object the oracle gave
    pruned,           \* what the pruning call gave
    extract_called,   \* was extract_body_by_headings called
    prune_file,       \* what became of the document's output file
    prune_pass,       \* 1 for the document, 2 for a text the pruning gave
    first_pruned,     \* on pass 2, the text pass 1 gave
    prune_pc          \* where the pruning of the document stands

\* The rule-based cleaning of one text
VARIABLES
    cleaner,          \* which of the two cleaners runs
    raw_text,         \* the text given to the cleaner
    clean_pass,       \* 1 for the raw text, 2 for a text the cleaner returned
    first_clean,      \* on pass 2, what pass 1 returned
    cleaned_text,     \* the text after steps 1 to 5
    lines,            \* cleaned_text.split('\n'), as the loop rewrites it
    line_at,          \* the loop's i, counted from 1
    rejoined_lines,   \* the lines the loop has emitted
    decision,         \* what the last pass of the loop saw and did
    reconstructed,    \* what the cleaner returned
    clean_pc          \* where the cleaner stands

\* The iterative cleaning of one file: main of step3_iter_clean_v3.py
VARIABLES
    input_file,             \* the text of the file named on the command line
    cleaned_files,          \* n -> the file {stem}_cleaned_v{n}.md
    current_file_to_clean,  \* 0 for the input file, n for {stem}_cleaned_v{n}.md
    iteration,
    feedback,
    content,                \* what the loop read from current_file_to_clean
    proposed,               \* main's params, what get_cleaning_parameters returned
    approve,
    announced,              \* n once {stem}_cleaned_v{n}.md is announced as final
    main_pc                 \* where main stands

refine_vars == <<impl, text, chunk_size, chunk_overlap, classifier, repairer,
                 pc, paragraphs, i, chunks, spans, k, response, classification,
                 repair_response, repair_args, repaired_chunks, log,
                 final_paragraphs, output>>

batch_vars == <<input_dir, output_before, output_dir, filenames, f, attempts,
                batch_pc>>

prune_vars == <<prune_caller, document, params, pruned, extract_called,
                prune_file, prune_pass, first_pruned, prune_pc>>

clean_vars == <<cleaner, raw_text, clean_pass, first_clean, cleaned_text,
                lines, line_at, rejoined_lines, decision, reconstructed,
                clean_pc>>

iterate_vars == <<input_file, cleaned_files, current_file_to_clean, iteration,
                  feedback, content, proposed, approve, announced, main_pc>>

vars == <<refine_vars, batch_vars, prune_vars, clean_vars, iterate_vars>>

\* What process_file does not touch: its parameters, and the state of the
\* other programs
elsewhere == <<batch_vars, prune_vars, clean_vars, iterate_vars>>

\* The state of the programs other than process_directory, and other than
\* the pruning
beside_batch == <<refine_vars, prune_vars, clean_vars, iterate_vars>>

beside_prune == <<refine_vars, batch_vars, clean_vars, iterate_vars>>

beside_clean == <<refine_vars, batch_vars, prune_vars, iterate_vars>>

beside_iterate == <<refine_vars, batch_vars, prune_vars, clean_vars>>

inputs == <<impl, text, chunk_size, chunk_overlap, classifier, repairer,
            elsewhere>>

\* process_directory is not running
BatchIdle ==
    /\ input_dir = [isdir |-> FALSE, names |-> {}]
    /\ output_before = <<>>
    /\ output_dir = <<>>
    /\ filenames = <<>>
    /\ f = 0
    /\ attempts = <<>>
    /\ batch_pc = "idle"

\* No document is being pruned
PruneIdle ==
    /\ prune_caller = "none"
    /\ document = <<>>
    /\ params = [start_heading |-> PyNone, end_heading |-> PyNone]
    /\ pruned = [raised |-> "", text |-> <<>>]
    /\ extract_called = FALSE
    /\ prune_file = "none"
    /\ prune_pass = 1
    /\ first_pruned = <<>>
    /\ prune_pc = "idle"

NoResult == Result(0, "none", <<>>)

\* classification.get('reason', 'Unknown error')
ReasonOf(c) == [why |-> c.why, text |-> c.text]

NoArgs == [text_chunk |-> <<>>, reason |-> ReasonOf(NoResult)]

\* The repair oracle call failed: client.chat raised, or its answer has no
\* message content that is a string
RepairOracleFailed(resp) == resp.chat /= "ok" \/ resp.content.t /= "str"

\* The chunk put in front instead of at the end
PrependChunk(processed, chunk) == <<chunk>> \o processed

\* repaired_chunks.append(chunk)
AppendChunk(processed, chunk) == Append(processed, chunk)

\* An entry of the log of oracle calls
Call(op, chunk) == [op |-> op, chunk |-> chunk]

\* What the loop has decided before its first pass
NoDecision ==
    [line |-> <<>>, has_next |-> FALSE, next_line |-> <<>>, did |-> "nothing"]

\* No text is being cleaned
CleanIdle ==
    /\ cleaner = "step2"
    /\ raw_text = <<>>
    /\ clean_pass = 1
    /\ first_clean = <<>>
    /\ cleaned_text = <<>>
    /\ lines = <<>>
    /\ line_at = 1
    /\ rejoined_lines = <<>>
    /\ decision = NoDecision
    /\ reconstructed = <<>>
    /\ clean_pc = "idle"

\* A file that is not there
Absent == [status |-> "absent", text |-> <<>>]

\* None where a parameter object is expected
NoParams ==
    [t |-> "none", n |-> 0, s |-> <<>>, start_heading |-> PyNone,
     end_heading |-> PyNone, has_citations |-> PyNone,
     has_english_abstract |-> PyNone]

\* No file is being cleaned iteratively
IterateIdle ==
    /\ input_file = <<>>
    /\ cleaned_files = <<>>
    /\ current_file_to_clean = 0
    /\ iteration = 1
    /\ feedback = "None"
    /\ content = <<>>
    /\ proposed = NoParams
    /\ approve = ""
    /\ announced = 0
    /\ main_pc = "idle"

\* The state when process_file has read the file
Start(im, t, size, overlap, cl, rp) ==
    /\ impl = im
    /\ text = t
    /\ chunk_size = size
    /\ chunk_overlap = overlap
    /\ classifier = cl
    /\ repairer = rp
    /\ pc = "split"
    /\ paragraphs = <<>>
    /\ i = 0
    /\ chunks = <<>>
    /\ spans = <<>>
    /\ k = 1
    /\ response = ChatRaises
    /\ classification = NoResult
    /\ repair_response = RepairRaises
    /\ repair_args = NoArgs
    /\ repaired_chunks = <<>>
    /\ log = <<>>
    /\ final_paragraphs = <<>>
    /\ output = <<>>
    /\ BatchIdle
    /\ PruneIdle
    /\ CleanIdle
    /\ IterateIdle

\* A step that moves past the overlap instead of back by it
StepPastOverlap(size, overlap) == size + overlap

\* A step one paragraph too long
StepOneMore(size, overlap) == size - overlap + 1

\* range(0, len(paragraphs), CHUNK_SIZE - CHUNK_OVERLAP): the step
Step(size, overlap) == size - overlap

\* paragraphs[i:i + CHUNK_SIZE]: the index after the slice's last one
SliceEnd(start, size, count) == Min(start + size, count)

\* The test written with < instead of <=
FitsOneChunkStrict(count, size) == count < size

\* len(paragraphs) <= CHUNK_SIZE
FitsOneChunk(count, size) == count <= size

\* text.split('\n\n'), then the test that chooses between one chunk and the
\* sliding window (step5 first tests len(paragraphs) == 0, which split never
\* produces)
SplitParagraphs ==
    /\ pc = "split"
    /\ paragraphs' = Split(text)
    /\ IF impl = "step5" /\ Len(paragraphs') = 0
       THEN /\ pc' = "done"
            /\ UNCHANGED chunks
            /\ UNCHANGED spans
       ELSE IF FitsOneChunk(Len(paragraphs'), chunk_size)
       THEN /\ pc' = "classify"
            /\ chunks' = <<Join(paragraphs')>>
            /\ spans' = << <<0, Len(paragraphs')>> >>
       ELSE /\ pc' = "chunk"
            /\ UNCHANGED chunks
            /\ UNCHANGED spans
    /\ UNCHANGED <<inputs, i, k, response, classification, repair_response,
                   repair_args, repaired_chunks, log, final_paragraphs, output>>

\* One round of the for loop over range(0, len(paragraphs), step)
ChunkStep ==
    /\ pc = "chunk"
    /\ i < Len(paragraphs)
    /\ LET end == SliceEnd(i, chunk_size, Len(paragraphs))
       IN  /\ chunks' = Append(chunks, Join(SubSeq(paragraphs, i + 1, end)))
           /\ spans' = Append(spans, <<i, end>>)
    /\ i' = i + Step(chunk_size, chunk_overlap)
    /\ UNCHANGED <<inputs, pc, paragraphs, k, response, classification,
                   repair_response, repair_args, repaired_chunks, log,
                   final_paragraphs, output>>

\* The range is exhausted
ChunkExit ==
    /\ pc = "chunk"
    /\ i >= Len(paragraphs)
    /\ pc' = "classify"
    /\ UNCHANGED <<inputs, paragraphs, i, chunks, spans, k, response,
                   classification, repair_response, repair_args, repaired_chunks,
                   log, final_paragraphs, output>>

\* The comparison written with <= instead of <
NeedsRepairInclusive(score) == score <= SCORE_THRESHOLD

\* score < SCORE_THRESHOLD
NeedsRepair(score) == score < SCORE_THRESHOLD

\* classification = classify_chunk(client, chunk) for the next chunk
Classify ==
    /\ pc = "classify"
    /\ k <= Len(chunks)
    /\ \E resp \in ClassifierResponses(classifier) :
           /\ response' = resp
           /\ classification' = classify_chunk(impl, resp)
    /\ log' = Append(log, Call("classify", k))
    /\ pc' = "decide"
    /\ UNCHANGED <<inputs, paragraphs, i, chunks, spans, k, repair_response,
                   repair_args, repaired_chunks, final_paragraphs, output>>

\* The branch score < SCORE_THRESHOLD: repair_chunk(client, chunk, reason)
Repair ==
    /\ pc = "decide"
    /\ NeedsRepair(classification.score)
    /\ \E how \in RepairerAnswers(repairer) :
           /\ repair_response' = RepairResponse(how, chunks[k])
           /\ repaired_chunks' =
                  AppendChunk(repaired_chunks,
                              repair_chunk(chunks[k], repair_response'))
    /\ repair_args' = [text_chunk |-> chunks[k],
                       reason |-> ReasonOf(classification)]
    /\ log' = Append(log, Call("repair", k))
    /\ k' = k + 1
    /\ pc' = "classify"
    /\ UNCHANGED <<inputs, paragraphs, i, chunks, spans, response,
                   classification, final_paragraphs, output>>

\* The else branch: the chunk is kept as it is
Keep ==
    /\ pc = "decide"
    /\ ~NeedsRepair(classification.score)
    /\ repaired_chunks' = AppendChunk(repaired_chunks, chunks[k])
    /\ k' = k + 1
    /\ pc' = "classify"
    /\ UNCHANGED <<inputs, paragraphs, i, chunks, spans, response,
                   classification, repair_response, repair_args, log,
                   final_paragraphs, output>>

\* full_text = "\n\n".join(repaired_chunks)
FullText(processed) == Join(processed)

\* The test without the look into seen_paragraphs
IsNewIgnoresSeen(para_strip, seen) == para_strip /= <<>>

\* The test that lets a paragraph into final_paragraphs
IsNew(para_strip, seen) == para_strip /= <<>> /\ para_strip \notin seen

\* The paragraph appended as it was read
KeptUntrimmed(para) == para

\* final_paragraphs.append(para.strip()): what is kept of a paragraph
Kept(para) == Strip(para)

\* The dedup loop from paragraph j on, with final_paragraphs and
\* seen_paragraphs as they stand
RECURSIVE DedupFrom(_, _, _, _)
DedupFrom(paras, j, final, seen) ==
    IF j > Len(paras) THEN final
    ELSE LET para_strip == Strip(paras[j])
         IN  IF IsNew(para_strip, seen)
             THEN DedupFrom(paras, j + 1, Append(final, Kept(paras[j])),
                            seen \cup {para_strip})
             ELSE DedupFrom(paras, j + 1, final, seen)

Dedup(full_text) == DedupFrom(Split(full_text), 1, <<>>, {})

\* After the last chunk: reassemble, drop duplicates, return
Reassemble ==
    /\ pc = "classify"
    /\ k > Len(chunks)
    /\ final_paragraphs' = Dedup(FullText(repaired_chunks))
    /\ output' = Join(final_paragraphs')
    /\ pc' = "done"
    /\ UNCHANGED <<inputs, paragraphs, i, chunks, spans, k, response,
                   classification, repair_response, repair_args, repaired_chunks,
                   log>>

Next ==
    \/ SplitParagraphs
    \/ ChunkStep
    \/ ChunkExit
    \/ Classify
    \/ Repair
    \/ Keep
    \/ Reassemble

\* ------------------------------------------------------------------------
\* Inputs and specifications
\* ------------------------------------------------------------------------

\* Sequences over S of length lo..hi
SeqsOf(S, lo, hi) == UNION {[1..n -> S] : n \in lo..hi}

\* The configurations: every chunk size up to MaxSize with every overlap
\* below it; the shipped one is <<CHUNK_SIZE, CHUNK_OVERLAP>>.
Configs == {<<size, overlap>> \in (1..MaxSize) \X (0..MaxSize) : overlap < size}

\* Spec: documents of up to MaxDocParas pieces joined by blank lines; a piece
\* may end in a line break (the file's last line, or a third line break
\* between two paragraphs).
Pieces == {<<"a">>, <<"b">>, <<"a", NL>>}

DocTexts == {Join(ps) : ps \in SeqsOf(Pieces, 1, MaxDocParas)}

\* The stub classifier's responses are read alike by both implementations,
\* so one of them stands for both here.
Init ==
    \E t \in DocTexts, cfg \in Configs :
        Start("step5", t, cfg[1], cfg[2], "stub", "stub")

Spec == Init /\ [][Next]_vars

\* SpecChunk: documents of 1..MaxP paragraphs, paragraph j holding the
\* decimal digits of j; in the style "blanks" every third paragraph is
\* empty, in the style "newline" the file ends with a line break. The
\* oracles are fixed for the run.
RECURSIVE Decimal(_)
Decimal(n) ==
    LET d == <<"0", "1", "2", "3", "4", "5", "6", "7", "8", "9">>[(n % 10) + 1]
    IN  IF n < 10 THEN <<d>> ELSE Append(Decimal(n \div 10), d)

DocStyles == {"plain", "blanks", "newline"}

NumberedDoc(count, style) ==
    Join([j \in 1..count |->
             IF style = "blanks" /\ j % 3 = 0 THEN <<>> ELSE Decimal(j)])
    \o (IF style = "newline" THEN <<NL>> ELSE <<>>)

InitChunk ==
    \E im \in Impls, count \in 1..MaxP, style \in DocStyles, cfg \in Configs,
       cl \in {"below", "at"} :
        Start(im, NumberedDoc(count, style), cfg[1], cfg[2], cl, "down")

SpecChunk == InitChunk /\ [][Next]_vars

\* SpecClassify: every kind of answer of the classification oracle, on
\* documents of one or two paragraphs cut into chunks of CHUNK_SIZE or of 1.
InitClassify ==
    \E im \in Impls, t \in {<<"a">>, <<"a", SP, NL, NL, "b", NL>>},
       size \in {1, CHUNK_SIZE} :
        Start(im, t, size, IF size = 1 THEN 0 ELSE CHUNK_OVERLAP, "any", "any")

SpecClassify == InitClassify /\ [][Next]_vars

\* SpecOverlap: documents of two or three paragraphs, no two alike, of which
\* the repair oracle's rewriting changes some, under every configuration.
DistinctDocs ==
    {Join(ps) : ps \in {qs \in SeqsOf({<<"a">>, <<"b">>, <<"a", "b">>}, 2, 3) :
                            \A m, n \in 1..Len(qs) : m /= n => qs[m] /= qs[n]}}

InitOverlap ==
    \E t \in DistinctDocs, cfg \in Configs :
        Start("step5", t, cfg[1], cfg[2], "stub", "stub")

SpecOverlap == InitOverlap /\ [][Next]_vars

\* ------------------------------------------------------------------------
\* process_directory of the refinement stage
\* ------------------------------------------------------------------------

\* ".txt"
TXT_SUFFIX == <<".", "t", "x", "t">>

\* str.endswith
EndsWith(s, suffix) ==
    /\ Len(s) >= Len(suffix)
    /\ SubSeq(s, Len(s) - Len(suffix) + 1, Len(s)) = suffix

\* The code points of the characters file names are written with here
CodePoint(c) ==
    CASE c = "." -> 46
      [] c = "a" -> 97
      [] c = "b" -> 98
      [] c = "d" -> 100
      [] c = "m" -> 109
      [] c = "t" -> 116
      [] c = "x" -> 120

\* a < b for two strings: by the first character they differ in, a proper
\* prefix first
StrLess(a, b) ==
    \E j \in 1..(Min(Len(a), Len(b)) + 1) :
        /\ SubSeq(a, 1, j - 1) = SubSeq(b, 1, j - 1)
        /\ \/ j > Len(a) /\ j <= Len(b)
           \/ j <= Len(a) /\ j <= Len(b) /\ CodePoint(a[j]) < CodePoint(b[j])

\* sorted(names)
Sorted(names) ==
    CHOOSE q \in [1..Cardinality(names) -> names] :
        \A x, y \in 1..Cardinality(names) : x < y => StrLess(q[x], q[y])

\* The entries a directory may hold: "b.txt", "a.txt", "ab.txt", "a.md"
DirEntries ==
    {<<"b", ".", "t", "x", "t">>, <<"a", ".", "t", "x", "t">>,
     <<"a", "b", ".", "t", "x", "t">>, <<"a", ".", "m", "d">>}

\* How one pass through the try block can end: process_file raises (the
\* file cannot be opened, read or decoded); open(output_path, 'w') raises;
\* the file is open, so created or cut to nothing, and f.write or the close
\* that flushes raises; or the text is written.
FileOutcomes == {"read_raises", "open_raises", "write_raises", "written"}

\* What the output directory holds under a name once the try block has
\* ended that way, given what it held
OutputAfter(held, outcome) ==
    CASE outcome = "read_raises" -> {held}
      [] outcome = "open_raises" -> {held}
      [] outcome = "write_raises" -> {"empty", "partial"}
      [] outcome = "written" -> {"refined"}

\* The checks, os.makedirs, the sorted listing and the second early return
ListFiles ==
    /\ batch_pc = "start"
    /\ LET names == {n \in input_dir.names : EndsWith(n, TXT_SUFFIX)}
       IN  IF ~input_dir.isdir
           THEN /\ batch_pc' = "returned"
                /\ UNCHANGED filenames
           ELSE IF names = {}
           THEN /\ batch_pc' = "returned"
                /\ UNCHANGED filenames
           ELSE /\ batch_pc' = "loop"
                /\ filenames' = Sorted(names)
    /\ UNCHANGED <<beside_batch, input_dir, output_before, output_dir, f,
                   attempts>>

\* One pass of the loop over filenames: the try block and its handler
ProcessOneFile ==
    /\ batch_pc = "loop"
    /\ f < Len(filenames)
    /\ LET filename == filenames[f + 1]
       IN  \E outcome \in FileOutcomes :
               \E holds \in OutputAfter(output_dir[filename], outcome) :
                   /\ output_dir' = [output_dir EXCEPT ![filename] = holds]
                   /\ attempts' = Append(attempts, [filename |-> filename,
                                                    outcome |-> outcome])
    /\ f' = f + 1
    /\ UNCHANGED <<beside_batch, input_dir, output_before, filenames, batch_pc>>

\* The loop is through: the completion message
Complete ==
    /\ batch_pc = "loop"
    /\ f = Len(filenames)
    /\ batch_pc' = "complete"
    /\ UNCHANGED <<beside_batch, input_dir, output_before, output_dir,
                   filenames, f, attempts>>

NextDirectory ==
    \/ ListFiles
    \/ ProcessOneFile
    \/ Complete

\* process_file is not running
RefineIdle ==
    /\ impl = "step5"
    /\ text = <<>>
    /\ chunk_size = CHUNK_SIZE
    /\ chunk_overlap = CHUNK_OVERLAP
    /\ classifier = "stub"
    /\ repairer = "stub"
    /\ pc = "idle"
    /\ paragraphs = <<>>
    /\ i = 0
    /\ chunks = <<>>
    /\ spans = <<>>
    /\ k = 1
    /\ response = ChatRaises
    /\ classification = NoResult
    /\ repair_response = RepairRaises
    /\ repair_args = NoArgs
    /\ repaired_chunks = <<>>
    /\ log = <<>>
    /\ final_paragraphs = <<>>
    /\ output = <<>>

\* SpecDirectory: the input path is no directory, or a directory with any of
\* DirEntries; the output directory holds nothing or an older output under
\* each name.
InitDirectory ==
    /\ RefineIdle
    /\ PruneIdle
    /\ CleanIdle
    /\ IterateIdle
    /\ \E isdir \in BOOLEAN, names \in SUBSET DirEntries :
           /\ isdir \/ names = {}
           /\ input_dir = [isdir |-> isdir, names |-> names]
    /\ output_before \in [DirEntries -> {"absent", "old"}]
    /\ output_dir = output_before
    /\ filenames = <<>>
    /\ f = 0
    /\ attempts = <<>>
    /\ batch_pc = "start"

SpecDirectory == InitDirectory /\ [][NextDirectory]_vars

\* ------------------------------------------------------------------------
\* Pruning between two headings: prune_text_body of step4_llm_prune.py, and
\* extract_body_by_headings as execute_cleaning calls it
\* ------------------------------------------------------------------------

\* bool(v) for a value a JSON object can hold
Truthy(v) ==
    CASE v.t = "none" -> FALSE
      [] v.t = "str" -> v.s /= <<>>
      [] v.t \in {"int", "float", "bool", "list", "dict"} -> v.n /= 0
      [] OTHER -> TRUE

\* What a call gives: the text it returns, or the exception it raises
Returned(t) == [raised |-> "", text |-> t]

Raised(exc) == [raised |-> exc, text |-> <<>>]

\* The heading read as a pattern of its own, not escaped
Unescaped(str) ==
    Cat([j \in 1..Len(str) |->
            IF str[j] = "." THEN DotAll ELSE OneOf({str[j]})])

\* re.escape(str): every character stands for itself
re_escape(str) == Literal(str)

\* The pattern with a greedy body
GreedyBodyPattern(start_heading, end_heading) ==
    Cat(<<re_escape(start_heading), Group(1, Greedy(DotAll, 0)),
          re_escape(end_heading)>>)

\* f"{start_pattern}(.*?){end_pattern}" under re.DOTALL
BodyPattern(start_heading, end_heading) ==
    Cat(<<re_escape(start_heading), Group(1, Lazy(DotAll, 0)),
          re_escape(end_heading)>>)

\* match.group(1).strip()
Body(body) == Strip(body)

\* re.escape of both headings, re.search and the two returns
SearchBody(t, start_heading, end_heading) ==
    IF start_heading.t /= "str" \/ end_heading.t /= "str"
    THEN Raised("TypeError")
    ELSE LET match == SearchFrom(BodyPattern(start_heading.s, end_heading.s), t, 1)
         IN  IF match /= NoMatch
             THEN Returned(Body(GroupText(t, match, 1)))
             ELSE Returned(t)

\* The test that is never true
NeverSkip(start_heading, end_heading) == FALSE

\* not start_heading or not end_heading
SkipPruning(start_heading, end_heading) ==
    ~Truthy(start_heading) \/ ~Truthy(end_heading)

prune_text_body(t, prm) ==
    LET start_heading == prm.start_heading
        end_heading == prm.end_heading
    IN  IF SkipPruning(start_heading, end_heading)
        THEN Returned(t)
        ELSE SearchBody(t, start_heading, end_heading)

extract_body_by_headings(t, start_heading, end_heading) ==
    SearchBody(t, start_heading, end_heading)

\* execute_cleaning's first step: the body is extracted only when both
\* headings are there
ExtractStep(t, prm) ==
    LET start == prm.start_heading
        end == prm.end_heading
    IN  IF ~SkipPruning(start, end)
        THEN extract_body_by_headings(t, start, end)
        ELSE Returned(t)

PruneCallers == {"process_directory", "execute_cleaning"}

\* One document pruned by its caller; an exception ends in the caller's
\* handler, which prints and writes no file
PruneDocument ==
    /\ prune_pc = "read"
    /\ pruned' = (IF prune_caller = "process_directory"
                  THEN prune_text_body(document, params)
                  ELSE ExtractStep(document, params))
    /\ extract_called' = (prune_caller = "execute_cleaning"
                          /\ ~SkipPruning(params.start_heading, params.end_heading))
    /\ prune_pc' = "pruned"
    /\ UNCHANGED <<beside_prune, prune_caller, document, params,
                   prune_file, prune_pass, first_pruned>>

\* The file is written, or the handler has printed its message
FinishDocument ==
    /\ prune_pc = "pruned"
    /\ prune_file' = (IF pruned.raised = "" THEN "written" ELSE "could_not_process")
    /\ prune_pc' = "done"
    /\ UNCHANGED <<beside_prune, prune_caller, document, params,
                   pruned, extract_called, prune_pass, first_pruned>>

\* The text that was written is pruned again between the same headings
PruneAgain ==
    /\ prune_pc = "done"
    /\ prune_pass = 1
    /\ prune_file = "written"
    /\ prune_pass' = 2
    /\ first_pruned' = pruned.text
    /\ document' = pruned.text
    /\ pruned' = Returned(<<>>)
    /\ extract_called' = FALSE
    /\ prune_file' = "none"
    /\ prune_pc' = "read"
    /\ UNCHANGED <<beside_prune, prune_caller, params>>

NextPrune ==
    \/ PruneDocument
    \/ FinishDocument
    \/ PruneAgain

\* The example of the specification
EXAMPLE_DOC ==
    <<"j", "u", "n", "k", NL, NL, "1", SP, "I", "n", "t", "r", "o", "d",
      "u", "c", "t", "i", "o", "n", NL, "B", "o", "d", "y", SP, "t", "e",
      "x", "t", ".", NL, NL, "R", "e", "f", "e", "r", "e", "n", "c", "e",
      "s", NL, "[", "1", "]", SP, "X", ".">>

EXAMPLE_START ==
    <<"1", SP, "I", "n", "t", "r", "o", "d", "u", "c", "t", "i", "o", "n">>

EXAMPLE_END == <<"R", "e", "f", "e", "r", "e", "n", "c", "e", "s">>

\* SpecPrune: every document of up to MaxDocLen characters out of DocChars
\* and the example, with headings the oracle's JSON object may hold: none,
\* an empty string, a string (one of them a regular expression of its own
\* when not escaped), a number, a list.
DocChars == {"a", "b", ".", SP}

Documents == SeqsOf(DocChars, 0, MaxDocLen) \cup {EXAMPLE_DOC}

Headings ==
    {PyNone, PyStr(<<>>), PyStr(<<"a">>), PyStr(<<"b">>), PyStr(<<".">>),
     PyStr(<<"a", "b">>), PyStr(EXAMPLE_START), PyStr(EXAMPLE_END),
     PyInt(1), PyInt(0), PyListOf(1)}

InitPrune ==
    /\ RefineIdle
    /\ BatchIdle
    /\ CleanIdle
    /\ IterateIdle
    /\ prune_caller \in PruneCallers
    /\ document \in Documents
    /\ params \in [start_heading : Headings, end_heading : Headings]
    /\ pruned = Returned(<<>>)
    /\ extract_called = FALSE
    /\ prune_file = "none"
    /\ prune_pass = 1
    /\ first_pruned = <<>>
    /\ prune_pc = "read"

SpecPrune == InitPrune /\ [][NextPrune]_vars

\* ------------------------------------------------------------------------
\* The cleaner as a state machine: steps 1 to 5, the while loop one pass at
\* a time, then the join, step 7 and the strip
\* ------------------------------------------------------------------------

\* Steps 1 to 5 and cleaned_text.split('\n')
PreClean ==
    /\ clean_pc = "rules"
    /\ cleaned_text' = Steps1To5(cleaner, raw_text)[5]
    /\ lines' = SplitLines(cleaned_text')
    /\ line_at' = 1
    /\ rejoined_lines' = <<>>
    /\ clean_pc' = "rejoin"
    /\ UNCHANGED <<beside_clean, cleaner, raw_text, clean_pass, first_clean,
                   decision, reconstructed>>

\* One pass of the while loop
RejoinStep ==
    /\ clean_pc = "rejoin"
    /\ line_at <= Len(lines)
    /\ LET after == RejoinLine(cleaner,
                        [lines |-> lines, i |-> line_at,
                         rejoined_lines |-> rejoined_lines, did |-> "nothing"])
       IN  /\ lines' = after.lines
           /\ line_at' = after.i
           /\ rejoined_lines' = after.rejoined_lines
           /\ decision' =
                  [line |-> Strip(lines[line_at]),
                   has_next |-> line_at + 1 <= Len(lines),
                   next_line |-> IF line_at + 1 <= Len(lines)
                                 THEN Strip(lines[line_at + 1]) ELSE <<>>,
                   did |-> after.did]
    /\ UNCHANGED <<beside_clean, cleaner, raw_text, clean_pass, first_clean,
                   cleaned_text, reconstructed, clean_pc>>

\* The loop is over: '\n'.join(rejoined_lines), step 7, strip, return
Normalize ==
    /\ clean_pc = "rejoin"
    /\ line_at > Len(lines)
    /\ reconstructed' = Normalized(rejoined_lines)
    /\ clean_pc' = "returned"
    /\ UNCHANGED <<beside_clean, cleaner, raw_text, clean_pass, first_clean,
                   cleaned_text, lines, line_at, rejoined_lines, decision>>

\* The cleaner is given the text it returned
CleanAgain ==
    /\ clean_pc = "returned"
    /\ clean_pass = 1
    /\ clean_pass' = 2
    /\ first_clean' = reconstructed
    /\ raw_text' = reconstructed
    /\ cleaned_text' = <<>>
    /\ lines' = <<>>
    /\ line_at' = 1
    /\ rejoined_lines' = <<>>
    /\ decision' = NoDecision
    /\ reconstructed' = <<>>
    /\ clean_pc' = "rules"
    /\ UNCHANGED <<beside_clean, cleaner>>

NextClean == PreClean \/ RejoinStep \/ Normalize \/ CleanAgain

\* The longest text in lines
MaxLines == 3

\* The lines texts are made of: a line that is no complete thought, a blank
\* line, a line broken at a hyphen, a list item, a line ending with an
\* ideographic full stop, a line ending with a colon, a caption
LineKinds ==
    {<<"a">>, <<>>, <<"b", "-">>, <<"b", ".">>, <<"a", "U+3002">>,
     <<"a", ":">>, <<"F", "i", "g", SP, "1">>}

\* The examples of the specification
EXAMPLE_REJOIN ==
    <<"T", "h", "e", SP, "c", "a", "t", SP, "s", "a", "t", SP, "o", "n", NL,
      "t", "h", "e", SP, "m", "a", "t", ".">>

EXAMPLE_REJOINED ==
    <<"T", "h", "e", SP, "c", "a", "t", SP, "s", "a", "t", SP, "o", "n", SP,
      "t", "h", "e", SP, "m", "a", "t", ".">>

EXAMPLE_LIST ==
    <<"I", "n", "t", "r", "o", NL,
      "1", ".", SP, "F", "i", "r", "s", "t", SP, "i", "t", "e", "m", NL,
      "2", ".", SP, "S", "e", "c", "o", "n", "d", SP, "i", "t", "e", "m">>

EXAMPLE_HYPHEN == <<"e", "x", "p", "e", "r", "i", "-", NL, "m", "e", "n", "t">>

\* Texts with a line of whitespace only between two lines
BLANK_LINE_TEXTS ==
    {<<"a", NL, SP, NL, "a", "b", ".">>,
     <<"a", SP, NL, SP, TAB, NL, SP, "b", "-">>}

\* Two lines with the numbering prefixes of the specification
NUMBERED_TEXT ==
    <<"1", "2", SP, "|", SP, "a", NL, "1", "3", SP, SP, "b", ".">>

\* A word three times in a row, and the specification's example
DUPLICATE_TEXTS ==
    {<<"t", "h", "e", SP, "t", "h", "e", SP, "t", "h", "e", SP, "c", "a", "t">>,
     <<"F", "o", "r", "e", "w", "o", "r", "d", SP,
       "F", "o", "r", "e", "w", "o", "r", "d">>}

\* Lines that HEADER_FOOTER_PATTERNS matches: a standalone page number,
\* which it matches whole, and a URL with text after it
HeaderLines ==
    {<<"1", "2">>, <<"h", "t", "t", "p", ":", "/", "/", "x", SP, "y">>}

\* A header line between two lines
Around(x, h, y) == JoinLines(<<x, h, y>>)

EXAMPLE_PAGE_NUMBER ==
    Around(<<"T", "h", "e", SP, "c", "a", "t", SP, "s", "a", "t", SP, "o", "n">>,
           <<"1", "2">>, <<"t", "h", "e", SP, "m", "a", "t", ".">>)

EXAMPLE_PAGE_NUMBER_CLEANED ==
    <<"T", "h", "e", SP, "c", "a", "t", SP, "s", "a", "t", SP, "o", "n", NL, NL,
      "t", "h", "e", SP, "m", "a", "t", ".">>

HEADER_LINE_TEXTS ==
    {Around(x, h, y) : x \in LineKinds \ {<<>>}, h \in HeaderLines,
                       y \in LineKinds \ {<<>>}}
        \cup {EXAMPLE_PAGE_NUMBER}

RawTexts ==
    {JoinLines(ls) : ls \in SeqsOf(LineKinds, 1, MaxLines)}
        \cup {EXAMPLE_REJOIN, EXAMPLE_LIST, EXAMPLE_HYPHEN, NUMBERED_TEXT}
        \cup DUPLICATE_TEXTS
        \cup HEADER_LINE_TEXTS
        \cup BLANK_LINE_TEXTS

InitClean ==
    /\ RefineIdle
    /\ BatchIdle
    /\ PruneIdle
    /\ IterateIdle
    /\ cleaner \in Cleaners
    /\ raw_text \in RawTexts
    /\ clean_pass = 1
    /\ first_clean = <<>>
    /\ cleaned_text = <<>>
    /\ lines = <<>>
    /\ line_at = 1
    /\ rejoined_lines = <<>>
    /\ decision = NoDecision
    /\ reconstructed = <<>>
    /\ clean_pc = "rules"

SpecClean == InitClean /\ [][NextClean]_vars

\* ------------------------------------------------------------------------
\* The iterative cleaner: main and execute_cleaning of step3_iter_clean_v3.py,
\* remove_citations and remove_english_abstract of cleaning_functions.py
\* ------------------------------------------------------------------------

\* \[\d+\](?:\d+-\d+)?|<fullwidth [>\d+<fullwidth ]>(?:\d+-\d+)?
CITATION_PATTERN ==
    LET pages == Optional(Cat(<<Greedy(Digit, 1), OneOf({"-"}), Greedy(Digit, 1)>>))
    IN  Alt(<<Cat(<<OneOf({"["}), Greedy(Digit, 1), OneOf({"]"}), pages>>),
              Cat(<<OneOf({"U+FF3B"}), Greedy(Digit, 1), OneOf({"U+FF3D"}),
                    pages>>)>>)

remove_citations(t) == Sub(CITATION_PATTERN, <<>>, t)

ABSTRACT_HEADING ==
    <<"#", SP, "I", "n", "s", "i", "g", "h", "t", "s", SP, "o", "n", SP,
      "t", "h", "e", SP, "p", "s", "y", "c", "h", "o", "l", "o", "g", "i",
      "c", "a", "l", SP, "p", "r", "o", "t", "e", "c", "t", "i", "o", "n",
      SP, "w", "o", "r", "k", SP, "o", "f", SP, "f", "o", "r", "e", "i",
      "g", "n", SP, "n", "a", "v", "i", "e", "s">>

\* The heading and .* under re.DOTALL
ABSTRACT_PATTERN == Cat(<<Literal(ABSTRACT_HEADING), Greedy(DotAll, 0)>>)

remove_english_abstract(t) == Sub(ABSTRACT_PATTERN, <<>>, t)

\* A parameter object: a JSON object of n keys; a key it does not have
\* reads None
PyDict(n, start, end, citations, abstract) ==
    [t |-> "dict", n |-> n, s |-> <<>>, start_heading |-> start,
     end_heading |-> end, has_citations |-> citations,
     has_english_abstract |-> abstract]

\* The body of execute_cleaning's try up to the write: the text to write,
\* or the exception that ends in its handler
CleaningPlan(prm, t) ==
    LET body == ExtractStep(t, prm)
        cited == IF Truthy(prm.has_citations)
                 THEN remove_citations(body.text) ELSE body.text
        abstracted == IF Truthy(prm.has_english_abstract)
                      THEN remove_english_abstract(cited) ELSE cited
    IN  IF body.raised /= "" THEN body ELSE Returned(abstracted)

\* The file current_file_to_clean names
CurrentFile ==
    IF current_file_to_clean = 0
    THEN [status |-> "input", text |-> input_file]
    ELSE cleaned_files[current_file_to_clean]

\* The top of the while loop: the file is read, or the loop ends
ReadFile ==
    /\ main_pc = "read"
    /\ IF CurrentFile.status = "absent"
       THEN /\ main_pc' = "stopped"
            /\ UNCHANGED content
       ELSE /\ content' = CurrentFile.text
            /\ main_pc' = "analyze"
    /\ UNCHANGED <<beside_iterate, input_file, cleaned_files,
                   current_file_to_clean, iteration, feedback, proposed,
                   approve, announced>>

\* What get_cleaning_parameters can return: None, or the object the model
\* wrote, of whatever keys and values
ParamAnswers ==
    {NoParams, PyDict(0, PyNone, PyNone, PyNone, PyNone)}
        \cup {PyDict(4, start, end, citations, abstract) :
                start \in {PyStr(<<"a">>), PyInt(1), PyNone},
                end \in {PyStr(<<"b">>), PyStr(<<>>)},
                citations \in {PyBool(TRUE), PyBool(FALSE)},
                abstract \in {PyBool(TRUE), PyBool(FALSE)}}

\* get_cleaning_parameters and the test of what it returned
GetCleaningParameters ==
    /\ main_pc = "analyze"
    /\ \E params_returned \in ParamAnswers :
          /\ proposed' = params_returned
          /\ main_pc' = (IF ~Truthy(params_returned) \/ params_returned.t /= "dict"
                         THEN "stopped" ELSE "execute")
    /\ UNCHANGED <<beside_iterate, input_file, cleaned_files,
                   current_file_to_clean, iteration, feedback, content,
                   approve, announced>>

\* execute_cleaning: the file is written, or the handler has printed the
\* exception and there is no write
execute_cleaning ==
    /\ main_pc = "execute"
    /\ LET plan == CleaningPlan(proposed, CurrentFile.text)
       IN  cleaned_files' =
               (IF plan.raised = ""
                THEN [cleaned_files EXCEPT
                          ![iteration] = [status |-> "written", text |-> plan.text]]
                ELSE cleaned_files)
    /\ approve' = ""
    /\ main_pc' = "inspect"
    /\ UNCHANGED <<beside_iterate, input_file, current_file_to_clean,
                   iteration, feedback, content, proposed, announced>>

\* The inner while loop: one line typed at the prompt
AskApproval ==
    /\ main_pc = "inspect"
    /\ approve \notin {"y", "n"}
    /\ \E typed \in {"y", "n", "maybe"} : approve' = typed
    /\ UNCHANGED <<beside_iterate, input_file, cleaned_files,
                   current_file_to_clean, iteration, feedback, content,
                   proposed, announced, main_pc>>

\* approve == 'y': the file is announced as final and the loop ends
Approved ==
    /\ main_pc = "inspect"
    /\ approve = "y"
    /\ announced' = iteration
    /\ main_pc' = "approved"
    /\ UNCHANGED <<beside_iterate, input_file, cleaned_files,
                   current_file_to_clean, iteration, feedback, content,
                   proposed, approve>>

\* The iterations followed
MaxIterations == 3

\* approve == 'n': the hint is taken and the next iteration starts from
\* this iteration's file name
NotApproved ==
    /\ main_pc = "inspect"
    /\ approve = "n"
    /\ iteration < MaxIterations
    /\ feedback' = "hint"
    /\ current_file_to_clean' = iteration
    /\ iteration' = iteration + 1
    /\ main_pc' = "read"
    /\ UNCHANGED <<beside_iterate, input_file, cleaned_files, content,
                   proposed, approve, announced>>

NextIterate ==
    \/ ReadFile
    \/ GetCleaningParameters
    \/ execute_cleaning
    \/ AskApproval
    \/ Approved
    \/ NotApproved

\* SpecIterate: an input file with both headings, a citation and the abstract
\* heading, or without any of them, in a directory where any of the cleaned
\* files may be there from an earlier run.
EARLIER_RUN == [status |-> "earlier run", text |-> <<"o", "l", "d">>]

INPUT_FILES ==
    {<<"a", SP, "x", "[", "1", "]", "2", "-", "3", SP, "a", "b", SP>>
        \o ABSTRACT_HEADING \o <<NL, "y">>,
     <<"x", "[", "1", "]">>}

InitIterate ==
    /\ RefineIdle
    /\ BatchIdle
    /\ PruneIdle
    /\ CleanIdle
    /\ input_file \in INPUT_FILES
    /\ cleaned_files \in [1..MaxIterations -> {Absent, EARLIER_RUN}]
    /\ current_file_to_clean = 0
    /\ iteration = 1
    /\ feedback = "None"
    /\ content = <<>>
    /\ proposed = NoParams
    /\ approve = ""
    /\ announced = 0
    /\ main_pc = "read"

SpecIterate == InitIterate /\ [][NextIterate]_vars

\* ------------------------------------------------------------------------
\* Claims
\* ------------------------------------------------------------------------

\* The number of chunks the refinement loop has finished
Handled == Len(repaired_chunks)

\* The refinement loop has just finished a chunk: classification is still
\* that chunk's, and the log ends with that chunk's last oracle call
JustHandled == pc \in {"classify", "done"} /\ Handled >= 1

LastCall == log[Len(log)]

\* C1: a chunk is sent to repair_chunk if and only if its score is strictly
\* below SCORE_THRESHOLD; a chunk scoring the threshold or more is kept as
\* its original text, and no repair call is made for it.
C1_RepairIffBelowThreshold ==
    JustHandled =>
        IF classification.score < SCORE_THRESHOLD
        THEN LastCall = Call("repair", Handled)
        ELSE /\ LastCall = Call("classify", Handled)
             /\ repaired_chunks[Handled] = chunks[Handled]
             /\ \A e \in 1..Len(log) : log[e] /= Call("repair", Handled)

\* C1 witness: the first chunk scored 6 and was repaired, the second scored
\* exactly 7 and was kept
C1_Witness ==
    /\ JustHandled
    /\ Handled = 2
    /\ log = <<Call("classify", 1), Call("repair", 1), Call("classify", 2)>>
    /\ repair_args.reason = [why |-> "oracle", text |-> <<"r">>]
    /\ classification.score = SCORE_THRESHOLD
    /\ repaired_chunks[2] = chunks[2]

\* The classification oracle failed: the call raised, the response does not
\* parse to an object, score or reason is missing, or the score is no integer
NotAnInteger(v) == v.t \in {"float", "inf", "nan", "str", "list"}

ClassifierFailed(resp) ==
    \/ resp.chat /= "object"
    \/ resp.score.t = "none"
    \/ resp.reason.t = "none"
    \/ NotAnInteger(resp.score)

\* C2: classify_chunk is fail-closed: whenever the oracle fails (see
\* ClassifierFailed) the result is score 1 with a reason describing the
\* failure, and the chunk is sent to repair.
C2_FailClosed ==
    /\ (pc = "decide" /\ ClassifierFailed(response)) =>
           /\ classification.score = 1
           /\ classification.why \in {"error", "missing_keys", "non_integer"}
    /\ (JustHandled /\ ClassifierFailed(response)) =>
           LastCall = Call("repair", Handled)

\* C3: every ClassificationResult carries a score in 1..10
C3_ScoreInRange ==
    pc = "decide" => classification.score \in 1..10

\* C4: when the repair oracle call fails, repair_chunk hands back the chunk
\* unchanged, so the processed chunk is the original one, the loop goes on
\* with the next chunk, and a finished run has classified and processed every
\* chunk.
C4_FailOpen ==
    /\ (JustHandled /\ LastCall.op = "repair"
            /\ RepairOracleFailed(repair_response)) =>
           /\ LastCall.chunk = Handled
           /\ repaired_chunks[Handled] = chunks[Handled]
           /\ pc = "classify" => k = Handled + 1
    /\ pc = "done" =>
           /\ Handled = Len(chunks)
           /\ \A c \in 1..Len(chunks) :
                  \E e \in 1..Len(log) : log[e] = Call("classify", c)

\* C4 witness: the repair of the first chunk failed, the chunk (which ends in
\* a line break) was kept as it was, and the second chunk is now classified
C4_Witness ==
    /\ pc = "decide"
    /\ log = <<Call("classify", 1), Call("repair", 1), Call("classify", 2)>>
    /\ RepairOracleFailed(repair_response)
    /\ repaired_chunks = <<chunks[1]>>
    /\ chunks[1] /= Strip(chunks[1])

\* The chunking is over: chunks and spans have their final values
Chunked == pc \in {"classify", "decide", "done"}

P == Len(paragraphs)

\* The paragraph indices (0-based) of chunk c
Indices(c) == {idx \in 0..(P - 1) : spans[c][1] <= idx /\ idx < spans[c][2]}

\* Every chunk's text is the join of the paragraphs of its span
ChunksMatchSpans ==
    /\ Len(chunks) = Len(spans)
    /\ \A c \in 1..Len(chunks) :
           chunks[c] = Join(SubSeq(paragraphs, spans[c][1] + 1, spans[c][2]))

\* C5: every paragraph index 0..P-1 appears in at least one chunk
C5_ChunkCoverage ==
    Chunked =>
        /\ ChunksMatchSpans
        /\ \A idx \in 0..(P - 1) : \E c \in 1..Len(chunks) : idx \in Indices(c)

\* C5 witness: 12 paragraphs, size 5, overlap 1: chunks start at 0, 4 and 8
C5_Witness ==
    /\ Chunked
    /\ P = 12
    /\ chunk_size = CHUNK_SIZE
    /\ chunk_overlap = CHUNK_OVERLAP
    /\ spans = << <<0, 5>>, <<4, 9>>, <<8, 12>> >>
    /\ UNION {Indices(c) : c \in 1..3} = 0..11

Shared(c) == Cardinality(Indices(c) \cap Indices(c + 1))

RefStarts == {n * (chunk_size - chunk_overlap) : n \in 0..P} \cap 0..(P - 1)

RefWindow(start) ==
    SubSeq(paragraphs, start + 1, Min(start + chunk_size, P))

RefChunkAt(c) ==
    LET start == CHOOSE st \in RefStarts :
                     Cardinality({t \in RefStarts : t < st}) = c - 1
    IN  Join(RefWindow(start))

RefChunks ==
    IF P <= chunk_size THEN <<Join(paragraphs)>>
    ELSE [c \in 1..Cardinality(RefStarts) |-> RefChunkAt(c)]

\* C7: the chunks are those of the reference definition, and no chunk is
\* empty or starts past the last paragraph index
C7_ChunksAreReference ==
    Chunked =>
        /\ chunks = RefChunks
        /\ \A c \in 1..Len(spans) :
               /\ spans[c][1] <= P - 1
               /\ spans[c][1] < spans[c][2]

\* C7 witness: the document has exactly CHUNK_SIZE paragraphs (one chunk), or
\* one more (two chunks, the second starting at the step)
C7_Witness ==
    /\ Chunked
    /\ chunk_size = CHUNK_SIZE
    /\ chunk_overlap = CHUNK_OVERLAP
    /\ P = CHUNK_SIZE + 1
    /\ spans = << <<0, 5>>, <<4, 6>> >>

\* The paragraphs of the concatenated processed chunks, as the dedup pass
\* reads them, and their trimmed forms
Concatenated == Split(Join(repaired_chunks))

Trimmed(paras) == [j \in 1..Len(paras) |-> Strip(paras[j])]

NoTwoEqual(paras) ==
    \A j, h \in 1..Len(paras) : j /= h => paras[j] /= paras[h]

RECURSIVE IsSubsequence(_, _)
IsSubsequence(a, b) ==
    IF a = <<>> THEN TRUE
    ELSE IF b = <<>> THEN FALSE
    ELSE IF Head(a) = Head(b) THEN IsSubsequence(Tail(a), Tail(b))
    ELSE IsSubsequence(a, Tail(b))

\* The non-empty members of paras that no earlier member equals, in order
RECURSIVE FirstOccurrencesFrom(_, _)
FirstOccurrencesFrom(paras, j) ==
    IF j > Len(paras) THEN <<>>
    ELSE (IF paras[j] /= <<>> /\ \A h \in 1..(j - 1) : paras[h] /= paras[j]
          THEN <<paras[j]>> ELSE <<>>)
         \o FirstOccurrencesFrom(paras, j + 1)

FirstOccurrences(paras) == FirstOccurrencesFrom(paras, 1)

DedupOf(paras) ==
    /\ final_paragraphs = FirstOccurrences(paras)
    /\ NoTwoEqual(final_paragraphs)
    /\ \A j \in 1..Len(final_paragraphs) : final_paragraphs[j] /= <<>>
    /\ IsSubsequence(final_paragraphs, paras)
    /\ \A j \in 1..Len(paras) :
           paras[j] /= <<>> =>
               \E h \in 1..Len(final_paragraphs) : final_paragraphs[h] = paras[j]

\* C8 as claimed: the dedup pass keeps exactly the first occurrence of each
\* distinct exact paragraph text of the concatenated processed chunks: no two
\* equal and no empty paragraphs in the output, which is a subsequence of the
\* concatenated paragraphs and holds every distinct non-empty one of them
C8_DedupExactText ==
    pc = "done" =>
        /\ DedupOf(Concatenated)
        /\ output = Join(final_paragraphs)

\* C8 as amended: the same of the paragraphs trimmed of their surrounding
\* whitespace: paragraphs are compared trimmed, and the trimmed form of the
\* first occurrence is kept
C8_DedupTrimmedText ==
    pc = "done" =>
        /\ DedupOf(Trimmed(Concatenated))
        /\ output = Join(final_paragraphs)

\* C8 witness: a chunk was repaired, the concatenation holds the same
\* paragraph twice, once with whitespace around it, and an empty paragraph;
\* two paragraphs are kept
C8_Witness ==
    /\ pc = "done"
    /\ \E e \in 1..Len(log) : log[e].op = "repair"
    /\ \E j, h \in 1..Len(Concatenated) :
           /\ j < h
           /\ Concatenated[j] /= Concatenated[h]
           /\ Strip(Concatenated[j]) = Strip(Concatenated[h])
    /\ \E j \in 1..Len(Concatenated) : Concatenated[j] = <<>>
    /\ Len(final_paragraphs) = 2

\* No chunk text was changed on the way through the refinement loop
NothingRepaired == repaired_chunks = chunks

\* C9 as claimed: when the input paragraphs are non-empty and pairwise
\* distinct and no chunk text is changed, the output is exactly the input
\* paragraphs, in order, each once
C9_IdentityOnDistinct ==
    (pc = "done" /\ NothingRepaired
        /\ NoTwoEqual(paragraphs)
        /\ \A j \in 1..P : paragraphs[j] /= <<>>) =>
            /\ final_paragraphs = paragraphs
            /\ output = text

\* C9 as amended: when the input paragraphs trimmed of surrounding whitespace
\* are non-empty and pairwise distinct and no chunk text is changed, the
\* output is exactly the trimmed input paragraphs, in order, each once
C9_IdentityOnTrimmedDistinct ==
    (pc = "done" /\ NothingRepaired
        /\ NoTwoEqual(Trimmed(paragraphs))
        /\ \A j \in 1..P : Strip(paragraphs[j]) /= <<>>) =>
            /\ final_paragraphs = Trimmed(paragraphs)
            /\ output = Join(Trimmed(paragraphs))

\* C9 witness: five paragraphs in chunks of 3 that overlap by 1; the file
\* ends with a line break, which the output has lost
C9_Witness ==
    /\ pc = "done"
    /\ NothingRepaired
    /\ P = 5
    /\ spans = << <<0, 3>>, <<2, 5>>, <<4, 5>> >>
    /\ paragraphs[5] = <<"5", NL>>
    /\ final_paragraphs = <<<<"1">>, <<"2">>, <<"3">>, <<"4">>, <<"5">>>>

\* The calls of op in the first n entries of the log
CallsBefore(op, n) == {e \in 1..n : log[e].op = op}

\* What repair_chunk can hand back for a chunk under this run's repair oracle
RepairsOf(text_chunk) ==
    {repair_chunk(text_chunk, RepairResponse(how, text_chunk)) :
        how \in RepairerAnswers(repairer)}

\* Processed chunk c is chunk c, kept or repaired as the log tells
InPlace(c) ==
    IF \E e \in 1..Len(log) : log[e] = Call("repair", c)
    THEN repaired_chunks[c] \in RepairsOf(chunks[c])
    ELSE repaired_chunks[c] = chunks[c]

\* C10: the chunks are handled one after the other in chunk order: one
\* classify_chunk call per chunk, the next one only when the chunk before is
\* fully handled; at most one repair_chunk call per chunk, right after that
\* chunk's classification scored below the threshold and with its chunk text
\* and reason; the processed chunks stand in chunk order (the chunk just
\* appended in every state, all of them when the run is over).
C10_SequentialInOrder ==
    /\ \A e \in 1..Len(log) :
           /\ log[e].op = "classify" =>
                  log[e].chunk = Cardinality(CallsBefore("classify", e - 1)) + 1
           /\ log[e].op = "repair" =>
                  e > 1 /\ log[e - 1] = Call("classify", log[e].chunk)
    /\ pc = "decide" => Handled = k - 1 /\ LastCall = Call("classify", k)
    /\ pc = "classify" =>
           Handled = k - 1 /\ Cardinality(CallsBefore("classify", Len(log))) = k - 1
    /\ pc = "done" =>
           /\ Handled = Len(chunks)
           /\ Cardinality(CallsBefore("classify", Len(log))) = Len(chunks)
    /\ (JustHandled /\ LastCall.op = "repair") =>
           /\ classification.score < SCORE_THRESHOLD
           /\ repair_args = [text_chunk |-> chunks[Handled],
                             reason |-> ReasonOf(classification)]
    /\ \A c \in 1..Handled :
           (pc = "done" \/ c = Handled) => InPlace(c)

\* C10 witness: three chunks; the first and the third were repaired, the
\* second was kept, and the run is over
C10_Witness ==
    /\ pc = "done"
    /\ log = <<Call("classify", 1), Call("repair", 1), Call("classify", 2),
               Call("classify", 3), Call("repair", 3)>>
    /\ Len(repaired_chunks) = 3
    /\ repaired_chunks[1] /= chunks[1]
    /\ repaired_chunks[2] = chunks[2]
    /\ chunks[1] /= chunks[2]

\* C19: process_file drops empty paragraphs when it splits the document,
\* before chunking: the paragraph list holds no empty paragraph, so the chunk
\* size and overlap count non-empty paragraphs only, and no chunk handed to
\* classify_chunk holds an empty paragraph
C19_EmptyParagraphsDropped ==
    /\ pc /= "split" =>
           \A j \in 1..Len(paragraphs) : paragraphs[j] /= <<>>
    /\ \A e \in 1..Len(log) :
           log[e].op = "classify" =>
               LET handed == Split(chunks[log[e].chunk])
               IN  \A j \in 1..Len(handed) : handed[j] /= <<>>

\* C11: in process_directory of the refinement stage a file whose reading,
\* processing or writing raises is skipped, with no output written for it by
\* this run, and the files after it are still processed in sorted filename
\* order, so the loop goes through every file and the run reaches its
\* completion message
C11_FileFailuresNeverFatal ==
    /\ \A x, y \in 1..Len(filenames) : x < y => StrLess(filenames[x], filenames[y])
    /\ Len(attempts) = f /\ f <= Len(filenames)
    /\ \A e \in 1..Len(attempts) :
           /\ attempts[e].filename = filenames[e]
           /\ attempts[e].outcome /= "written" =>
                  output_dir[filenames[e]] = output_before[filenames[e]]
    /\ batch_pc = "complete" => f = Len(filenames)
    /\ batch_pc = "loop" => ENABLED NextDirectory

\* C11 without the clause on the output of a failed file: every file is
\* gone through in sorted order whatever raised before it, and the run
\* completes
BatchGoesOn ==
    /\ \A x, y \in 1..Len(filenames) : x < y => StrLess(filenames[x], filenames[y])
    /\ Len(attempts) = f /\ f <= Len(filenames)
    /\ \A e \in 1..Len(attempts) : attempts[e].filename = filenames[e]
    /\ batch_pc = "complete" => f = Len(filenames)
    /\ batch_pc = "loop" => ENABLED NextDirectory

\* A heading that is empty or missing
NoHeading(v) == v.t = "none" \/ (v.t = "str" /\ v.s = <<>>)

Occurrences(t, str, pos) ==
    {q \in pos..(Len(t) - Len(str) + 1) : SubSeq(t, q, q + Len(str) - 1) = str}

\* The first of them, 0 when there is none
FirstOccurrence(t, str, pos) ==
    IF Occurrences(t, str, pos) = {} THEN 0
    ELSE CHOOSE q \in Occurrences(t, str, pos) :
             \A r \in Occurrences(t, str, pos) : q <= r

\* Both headings are non-empty strings
BothHeadings ==
    /\ params.start_heading.t = "str" /\ params.start_heading.s /= <<>>
    /\ params.end_heading.t = "str" /\ params.end_heading.s /= <<>>

\* Where the body starts: right after the first occurrence of the start
\* heading; 0 when the start heading does not occur
BodyStart ==
    LET q == FirstOccurrence(document, params.start_heading.s, 1)
    IN  IF q = 0 THEN 0 ELSE q + Len(params.start_heading.s)

\* Where the first occurrence of the end heading at or after the body's start
\* begins; 0 when there is none
BodyEnd ==
    IF BodyStart = 0 THEN 0
    ELSE FirstOccurrence(document, params.end_heading.s, BodyStart)

\* C13: with both headings non-empty and a match present, the pruning gives
\* exactly the text between the end of the first occurrence of the start
\* heading and the start of the first occurrence of the end heading at or
\* after it, trimmed; headings are matched as literal strings; the example
\* document gives "Body text."
C13_BodyBetweenHeadings ==
    (prune_pc /= "read" /\ BothHeadings /\ BodyEnd > 0)
        => /\ pruned = Returned(Strip(SubSeq(document, BodyStart, BodyEnd - 1)))
           /\ (/\ document = EXAMPLE_DOC
               /\ params.start_heading.s = EXAMPLE_START
               /\ params.end_heading.s = EXAMPLE_END)
                  => pruned.text = <<"B", "o", "d", "y", SP, "t", "e", "x", "t", ".">>

\* C13 witness: the example document pruned between "1 Introduction" and
\* "References"
C13_Witness ==
    /\ prune_pc = "done"
    /\ document = EXAMPLE_DOC
    /\ params = [start_heading |-> PyStr(EXAMPLE_START),
                 end_heading |-> PyStr(EXAMPLE_END)]
    /\ pruned.text = <<"B", "o", "d", "y", SP, "t", "e", "x", "t", ".">>

\* C14: when pruning is tried (both headings are there) and the start
\* heading does not occur in the text, or the end heading does not occur
\* after an occurrence of it, the pruning returns the text unchanged and
\* does not raise; the pruning never ends in an error outcome for the file
C14_NoMatchIsNoOp ==
    /\ (/\ prune_pc /= "read"
        /\ Truthy(params.start_heading) /\ Truthy(params.end_heading)
        /\ ~(BothHeadings /\ BodyEnd > 0))
           => pruned = Returned(document)
    /\ prune_file /= "could_not_process"

\* C14 for headings that are strings: no match, no change, no exception
NoMatchIsNoOpForStrings ==
    (prune_pc /= "read" /\ BothHeadings /\ BodyEnd = 0)
        => /\ pruned = Returned(document)
           /\ prune_pc = "done" => prune_file = "written"

\* The state machine returns what the function gives
CleanerIsReconstruct ==
    clean_pc = "returned" => reconstructed = Reconstruct(cleaner, raw_text)

\* The loop has just been through a line
Decided == clean_pc = "rejoin" /\ decision.did /= "nothing"

IsListItem(line) == Matches(LIST_ITEM_PATTERN(cleaner), line)

\* C15: in the line-rejoin loop, a non-blank line that is no complete thought
\* is merged into the next line, which becomes line + one space + next line
\* and is the line the loop looks at next, exactly when there is a next
\* line, it is not empty and it is no list item; otherwise the line is
\* emitted as it is. The example of the specification is rejoined into one
\* line.
C15_MergeRule ==
    /\ (Decided /\ decision.line /= <<>>
            /\ ~IsCompleteThought(cleaner, decision.line))
        => IF /\ decision.has_next
              /\ decision.next_line /= <<>>
              /\ ~IsListItem(decision.next_line)
           THEN /\ decision.did = "merged"
                /\ line_at <= Len(lines)
                /\ lines[line_at] =
                       decision.line \o <<SP>> \o decision.next_line
           ELSE /\ decision.did = "emitted"
                /\ rejoined_lines /= <<>>
                /\ rejoined_lines[Len(rejoined_lines)] = decision.line
    /\ (clean_pc = "returned" /\ clean_pass = 1 /\ raw_text = EXAMPLE_REJOIN)
        => reconstructed = EXAMPLE_REJOINED

C15_Witness ==
    /\ Decided
    /\ raw_text = EXAMPLE_REJOIN
    /\ decision.did = "merged"
    /\ lines[line_at] = EXAMPLE_REJOINED

\* C16: in the line-rejoin loop a line followed by a list item is never
\* merged into it, and a list item is emitted and never merged into the line
\* after it; the three lines of the example of the specification come out
\* as three lines.
C16_ListPreserved ==
    /\ Decided
        => /\ (decision.has_next /\ IsListItem(decision.next_line))
                => decision.did /= "merged"
           /\ IsListItem(decision.line)
                => /\ decision.did = "emitted"
                   /\ rejoined_lines[Len(rejoined_lines)] = decision.line
    /\ (clean_pc = "returned" /\ clean_pass = 1 /\ raw_text = EXAMPLE_LIST)
        => reconstructed = EXAMPLE_LIST

C16_Witness ==
    /\ Decided
    /\ raw_text = EXAMPLE_LIST
    /\ IsListItem(decision.line)
    /\ decision.has_next
    /\ IsListItem(decision.next_line)
    /\ Len(rejoined_lines) = 2

\* C17: the cleaner given a text it returned returns that text again.
C17_Idempotent ==
    (clean_pc = "returned" /\ clean_pass = 2) => reconstructed = first_clean

\* Is there a letter, a hyphen, a line break and a letter at position q
HyphenBreakAt(s, q) ==
    /\ q + 3 <= Len(s)
    /\ s[q] \in Letters
    /\ s[q + 1] = "-"
    /\ s[q + 2] = NL
    /\ s[q + 3] \in Letters

\* C18: after step 5 no letter, hyphen, line break and letter in a row is
\* left in the text, and the example of the specification comes out as one
\* word.
C18_EveryHyphenBreakJoined ==
    /\ clean_pc \in {"rejoin", "returned"}
        => \A q \in 1..Len(cleaned_text) : ~HyphenBreakAt(cleaned_text, q)
    /\ (clean_pc = "returned" /\ clean_pass = 1 /\ raw_text = EXAMPLE_HYPHEN)
        => reconstructed = <<"e", "x", "p", "e", "r", "i", "m", "e", "n", "t">>

\* C20: in both cleaners a line that ends with one of . ? ! " (right double
\* quotation mark) : (ideographic full stop) (fullwidth ?) (fullwidth !), or
\* is a list item, or is a caption, is emitted and not merged into the next
\* line.
C20_CompleteThoughtEmitted ==
    (Decided /\ decision.line /= <<>>
        /\ \/ decision.line[Len(decision.line)] \in
                  {".", "?", "!", "\"", "U+201D", ":", "U+3002", "U+FF1F",
                   "U+FF01"}
           \/ IsListItem(decision.line)
           \/ Matches(CAPTION_PATTERN(cleaner), decision.line))
        => decision.did = "emitted"

\* The lines of a text, stripped, in blocks that blank lines delimit: per
\* block, its lines joined with single spaces
RECURSIVE BlockTexts(_, _, _)
BlockTexts(ls, j, acc) ==
    IF j > Len(ls) THEN acc
    ELSE LET line == Strip(ls[j])
             last == acc[Len(acc)]
         IN  BlockTexts(ls, j + 1,
                 IF line = <<>> THEN Append(acc, <<>>)
                 ELSE [acc EXCEPT ![Len(acc)] =
                          IF last = <<>> THEN line
                          ELSE last \o <<SP>> \o line])

Blocks(ls) == BlockTexts(ls, 1, <<<<>>>>)

\* The lines the loop has emitted, then the lines it has still to go through
EmittedAndPending == rejoined_lines \o SubSeq(lines, line_at, Len(lines))

Blanks(ls) == Cardinality({j \in 1..Len(ls) : Strip(ls[j]) = <<>>})

\* C21: throughout the line-rejoin loop the blank lines stay where they are
\* and every line stays in its blank-line-delimited block: the emitted and
\* pending lines have the blocks of the loop's input, block by block, and
\* when the loop is over there is one empty line per blank input line.
C21_BlocksPreserved ==
    clean_pc = "rejoin"
        => /\ Blocks(EmittedAndPending) = Blocks(SplitLines(cleaned_text))
           /\ line_at > Len(lines)
                => Cardinality({j \in 1..Len(rejoined_lines) :
                                    rejoined_lines[j] = <<>>})
                       = Blanks(SplitLines(cleaned_text))

C21_Witness ==
    /\ clean_pc = "rejoin"
    /\ line_at > Len(lines)
    /\ raw_text \in BLANK_LINE_TEXTS
    /\ Len(rejoined_lines) = 3
    /\ rejoined_lines[1] = <<"a">>
    /\ rejoined_lines[2] = <<>>

\* C22: after step 4 no line of the text begins with a numbering prefix
\* (digits, optional whitespace, an optional '|'), whichever line it is.
C22_EveryLineNumberStripped ==
    clean_pc \in {"rejoin", "returned"}
        => LET after == SplitLines(Steps1To5(cleaner, raw_text)[4])
           IN  \A j \in 1..Len(after) : ~Matches(LINE_NUMBER_PATTERN, after[j])

\* C23: after step 2 no phrase of the text is left immediately followed by
\* whitespace and a copy of itself, however many copies there were.
C23_NoDuplicateLeft ==
    clean_pc \in {"rejoin", "returned"}
        => SearchFrom(DUPLICATE_PHRASE_PATTERN,
                      Steps1To5(cleaner, raw_text)[2], 1) = NoMatch

\* The non-blank lines of ls, stripped, in their order, with single spaces
\* between them
RECURSIVE Words(_, _, _)
Words(ls, j, acc) ==
    IF j > Len(ls) THEN acc
    ELSE LET line == Strip(ls[j])
         IN  Words(ls, j + 1,
                   IF line = <<>> THEN acc
                   ELSE IF acc = <<>> THEN line
                   ELSE acc \o <<SP>> \o line)

\* Does s end with suffix
EndsIn(s, suffix) ==
    /\ Len(suffix) <= Len(s)
    /\ SubSeq(s, Len(s) - Len(suffix) + 1, Len(s)) = suffix

\* C26: the line-rejoin loop neither loses nor duplicates text: at every
\* pass the emitted lines and the pending ones, read in order, give the
\* non-blank lines of the loop's input in their order, with single spaces or
\* line breaks between them; and when the loop is over the last emitted line
\* ends with the last line of the input.
C26_NothingLostOrDuplicated ==
    clean_pc = "rejoin"
        => LET given == SplitLines(cleaned_text)
           IN  /\ Words(EmittedAndPending, 1, <<>>) = Words(given, 1, <<>>)
               /\ line_at > Len(lines)
                    => /\ rejoined_lines /= <<>>
                       /\ EndsIn(rejoined_lines[Len(rejoined_lines)],
                                 Strip(given[Len(given)]))

C26_Witness ==
    /\ clean_pc = "rejoin"
    /\ line_at > Len(lines)
    /\ decision.did = "emitted"
    /\ Len(SplitLines(cleaned_text)) = 3
    /\ rejoined_lines = <<<<"a", ":">>, <<"a", SP, "b", "-">>>>

\* The cleaner has returned, on its first pass, for a header line h between
\* the lines x and y, x being no complete thought
ReturnedAround(x, h, y) ==
    /\ clean_pc = "returned"
    /\ clean_pass = 1
    /\ raw_text = Around(x, h, y)
    /\ ~IsCompleteThought(cleaner, x)

\* The line x comes out as it is, with a paragraph break after it
BrokenAfter(x) ==
    LET out == SplitLines(reconstructed)
    IN  /\ Len(out) >= 3
        /\ out[1] = x
        /\ out[2] = <<>>

MatchedWhole(h) ==
    MatchAt(HEADER_FOOTER_PATTERNS(cleaner), h, 1).to = Len(h) + 1

C28_PruneIdempotent ==
    /\ (prune_pass = 2 /\ prune_pc /= "read")
        => pruned = Returned(first_pruned)
    /\ (prune_pass = 1 /\ prune_pc /= "read" /\ BothHeadings /\ BodyEnd > 0)
        => Occurrences(pruned.text, params.end_heading.s, 1) = {}

\* C28 witness: the text between "a" and "b" of "aa b" is "a"; pruned again
\* it has the start heading in it and no end heading, and stays "a"
C28_Witness ==
    /\ prune_pass = 2
    /\ prune_pc = "done"
    /\ params = [start_heading |-> PyStr(<<"a">>), end_heading |-> PyStr(<<"b">>)]
    /\ first_pruned = <<"a">>
    /\ document = <<"a">>
    /\ pruned = Returned(<<"a">>)
    /\ prune_file = "written"

\* The paragraph indices of chunk c
IndicesOf(c) == spans[c][1]..(spans[c][2] - 1)

\* C29: every chunk the sliding window produces holds a paragraph index
\* that no earlier chunk holds.
C29_NoRedundantChunk ==
    \A c \in 2..Len(spans) :
        \E idx \in IndicesOf(c) : \A b \in 1..(c - 1) : idx \notin IndicesOf(b)

\* Every processed chunk has as many paragraphs as the chunk it was made of
CountPreserving ==
    \A c \in 1..Len(repaired_chunks) :
        Len(Split(repaired_chunks[c])) = Len(Split(chunks[c]))

\* C24: when the repairs keep the number of paragraphs, the refined output
\* has no more paragraphs than the input, and no input paragraph is in it
\* both as it was and as the repair rewrote it.
C24_OneVersionPerParagraph ==
    (pc = "done" /\ CountPreserving)
        => /\ Len(final_paragraphs) <= Len(paragraphs)
           /\ \A j \in 1..Len(paragraphs) :
                  LET para == Strip(paragraphs[j])
                      both == {para, Rewrite(para)}
                  IN  Rewrite(para) /= para
                        => ~(both \subseteq
                                {final_paragraphs[n] : n \in 1..Len(final_paragraphs)})

\* No chunk was handed to the repair model
NoRepairCall == \A n \in 1..Len(log) : log[n].op /= "repair"

\* How many of the paragraphs read para when trimmed
TimesIn(paras, para) ==
    Cardinality({n \in 1..Len(paras) : Strip(paras[n]) = para})

\* C25: when no chunk is repaired, every paragraph of the input is in the
\* refined output as many times as it is in the input.
C25_NoOccurrenceDropped ==
    (pc = "done" /\ NoRepairCall)
        => \A j \in 1..Len(paragraphs) :
               Strip(paragraphs[j]) /= <<>>
                 => TimesIn(final_paragraphs, Strip(paragraphs[j]))
                        >= TimesIn(paragraphs, Strip(paragraphs[j]))


\* C30: the file announced as final was written by execute_cleaning in the
\* iteration that announces it; and an iteration after the first starts
\* from the file the iteration before it wrote, which is what it reads.
C30_AnnouncedFileWritten ==
    /\ announced /= 0 => cleaned_files[announced].status = "written"
    /\ iteration > 1
         => /\ current_file_to_clean = iteration - 1
            /\ cleaned_files[iteration - 1].status = "written"
            /\ main_pc \in {"analyze", "execute", "inspect", "approved"}
                 => content = cleaned_files[iteration - 1].text

====
